---- MODULE Spec2Model ----
(***************************************************************************)
(* Request dispatch of src/main.py: the FastAPI application `app`, its     *)
(* route table in registration order, each route's declared parameters,    *)
(* the validation the declarations ask of the framework, and the handlers. *)
(*                                                                         *)
(* A string is a sequence of one-character strings, so that parsing,       *)
(* lower-casing and length checks are computed and not assumed.  Names of  *)
(* parameters, fields and handlers are atoms (TLA+ strings).               *)
(***************************************************************************)
EXTENDS Integers, Sequences, FiniteSets, TLC

VARIABLES fake_items_db, task

vars == <<fake_items_db, task>>

-----------------------------------------------------------------------------
(* Characters and strings *)

Digits == <<"0", "1", "2", "3", "4", "5", "6", "7", "8", "9">>

UpperCase == <<"A", "B", "C", "D", "E", "F", "G", "H", "I", "J", "K", "L", "M",
               "N", "O", "P", "Q", "R", "S", "T", "U", "V", "W", "X", "Y", "Z">>

LowerCase == <<"a", "b", "c", "d", "e", "f", "g", "h", "i", "j", "k", "l", "m",
               "n", "o", "p", "q", "r", "s", "t", "u", "v", "w", "x", "y", "z">>

IsDigit(c) == \E i \in DOMAIN Digits : Digits[i] = c

DigitVal(c) == (CHOOSE i \in DOMAIN Digits : Digits[i] = c) - 1

\* str.lower() on one character
LowerChar(c) ==
    IF \E i \in DOMAIN UpperCase : UpperCase[i] = c
    THEN LowerCase[CHOOSE i \in DOMAIN UpperCase : UpperCase[i] = c]
    ELSE c

\* str.lower()
Lower(s) == [i \in DOMAIN s |-> LowerChar(s[i])]

\* str.strip() of blanks
RECURSIVE LStrip(_)
LStrip(s) == IF s # <<>> /\ Head(s) = " " THEN LStrip(Tail(s)) ELSE s

RECURSIVE RStrip(_)
RStrip(s) ==
    IF s # <<>> /\ s[Len(s)] = " " THEN RStrip(SubSeq(s, 1, Len(s) - 1)) ELSE s

Strip(s) == RStrip(LStrip(s))

AllDigits(s) == \A i \in DOMAIN s : IsDigit(s[i])

\* the number a run of decimal digits denotes
RECURSIVE DigitsVal(_)
DigitsVal(s) ==
    IF s = <<>> THEN 0
    ELSE 10 * DigitsVal(SubSeq(s, 1, Len(s) - 1)) + DigitVal(s[Len(s)])

RECURSIVE Pow10(_)
Pow10(n) == IF n = 0 THEN 1 ELSE 10 * Pow10(n - 1)

IndexOf(s, c) ==
    IF \E i \in DOMAIN s : s[i] = c
    THEN CHOOSE i \in DOMAIN s : s[i] = c /\ \A j \in 1..(i - 1) : s[j] # c
    ELSE 0

HasSign(s) == s # <<>> /\ Head(s) \in {"+", "-"}

Unsigned(s) == IF HasSign(s) THEN Tail(s) ELSE s

SignOf(s) == IF s # <<>> /\ Head(s) = "-" THEN -1 ELSE 1

-----------------------------------------------------------------------------
(* Python values: what the framework hands to the validators (strings from *)
(* the path, the query string and cookies; the decoded JSON body) and what *)
(* the handlers receive and return.                                        *)

PyNone == [t |-> "None"]

PyStr(s) == [t |-> "str", s |-> s]

PyInt(n) == [t |-> "int", n |-> n]

PyBool(b) == [t |-> "bool", b |-> b]

\* a finite float num/den (den > 0), or nan, inf, -inf
PyFloat(num, den) == [t |-> "float", k |-> "fin", num |-> num, den |-> den]

PyNaN == [t |-> "float", k |-> "nan", num |-> 0, den |-> 1]

PyInf(sign) ==
    [t |-> "float", k |-> IF sign < 0 THEN "-inf" ELSE "inf", num |-> 0, den |-> 1]

PyList(a) == [t |-> "list", a |-> a]

PySet(e) == [t |-> "set", e |-> e]

PyDict(d) == [t |-> "dict", d |-> d]

\* a decoded JSON object whose keys are not field names: its items in order
PyObject(items) == [t |-> "object", items |-> items]

KeyValue(key, value) == [key |-> key, value |-> value]

\* a dict whose keys are ints (a validated Dict[int, float])
PyIntDict(d) == [t |-> "intdict", d |-> d]

\* an instance of a pydantic model class
PyModel(cls, d) == [t |-> "model", cls |-> cls, d |-> d]

\* a member of an Enum class
PyEnum(cls, s) == [t |-> "enum", cls |-> cls, s |-> s]

\* the empty mapping
EmptyMap == [k \in {} |-> PyNone]

\* bool(v), as the handlers' `if q:`, `if item.tax:`, `if not short:` compute it
Truthy(v) ==
    CASE v.t = "None"  -> FALSE
      [] v.t = "str"   -> v.s # <<>>
      [] v.t = "int"   -> v.n # 0
      [] v.t = "bool"  -> v.b
      [] v.t = "float" -> ~(v.k = "fin" /\ v.num = 0)
      [] v.t = "list"  -> v.a # <<>>
      [] v.t = "set"   -> v.e # {}
      [] v.t = "dict"  -> DOMAIN v.d # {}
      [] OTHER         -> TRUE

\* a + b on floats (items8: item.price + item.tax)
FloatAdd(a, b) ==
    CASE a.k = "nan" \/ b.k = "nan" -> PyNaN
      [] a.k = "fin" /\ b.k = "fin" -> PyFloat(a.num * b.den + b.num * a.den, a.den * b.den)
      [] a.k = "fin" -> b
      [] b.k = "fin" -> a
      [] a.k = b.k -> a
      [] OTHER -> PyNaN

\* f > b, f >= b, f < b, f <= b for a float f and an integer bound b
FloatGT(f, b) == \/ f.k = "inf"
                 \/ f.k = "fin" /\ f.num > b * f.den

FloatLT(f, b) == \/ f.k = "-inf"
                 \/ f.k = "fin" /\ f.num < b * f.den

FloatGE(f, b) == \/ f.k = "inf"
                 \/ f.k = "fin" /\ f.num >= b * f.den

FloatLE(f, b) == \/ f.k = "-inf"
                 \/ f.k = "fin" /\ f.num <= b * f.den

\* int(f) of a finite float: truncation toward zero
FloatTrunc(f) == IF f.num >= 0 THEN f.num \div f.den ELSE -((-f.num) \div f.den)

-----------------------------------------------------------------------------
(* Conversions from text.  Each returns [ok, v].                           *)

Fail == [ok |-> FALSE, v |-> PyNone]

Ok(v) == [ok |-> TRUE, v |-> v]

\* int(s) for a string s: blanks stripped, an optional sign, decimal digits
ParseInt(s) ==
    LET Signed(sign, u) ==
            IF u # <<>> /\ AllDigits(u) THEN Ok(PyInt(sign * DigitsVal(u))) ELSE Fail
        Stripped(b) == Signed(SignOf(b), Unsigned(b))
    IN  Stripped(Strip(s))

W_inf == <<"i", "n", "f">>

W_infinity == <<"i", "n", "f", "i", "n", "i", "t", "y">>

W_nan == <<"n", "a", "n">>

\* float(s) for a string s: blanks stripped, an optional sign, then inf,
\* infinity or nan in any case, or decimal digits with at most one point
ParseFloat(s) ==
    LET Decimal(sign, ip, fp) ==
            IF AllDigits(ip) /\ AllDigits(fp) /\ Len(ip) + Len(fp) > 0
            THEN Ok(PyFloat(sign * (DigitsVal(ip) * Pow10(Len(fp)) + DigitsVal(fp)),
                            Pow10(Len(fp))))
            ELSE Fail
        Split(sign, u, p) ==
            Decimal(sign, IF p = 0 THEN u ELSE SubSeq(u, 1, p - 1),
                    IF p = 0 THEN <<>> ELSE SubSeq(u, p + 1, Len(u)))
        Signed(sign, u) ==
            CASE u \in {W_inf, W_infinity} -> Ok(PyInf(sign))
              [] u = W_nan -> Ok(PyNaN)
              [] OTHER -> Split(sign, u, IndexOf(u, "."))
        Stripped(b) == Signed(SignOf(b), Lower(Unsigned(b)))
    IN  Stripped(Strip(s))

-----------------------------------------------------------------------------
(* The validation library's coercions (pydantic 1.x, whose API the source  *)
(* uses: Query(regex=...), item.dict(), Config.schema_extra).  Each takes  *)
(* a value other than None and returns [ok, v, err].                       *)

Bad(err) == [ok |-> FALSE, v |-> PyNone, err |-> err]

Good(v) == [ok |-> TRUE, v |-> v, err |-> ""]

\* str(n) for a natural number n
RECURSIVE NatToStr(_)
NatToStr(n) ==
    IF n < 10 THEN <<Digits[n + 1]>>
    ELSE NatToStr(n \div 10) \o <<Digits[(n % 10) + 1]>>

IntToStr(n) == IF n < 0 THEN <<"-">> \o NatToStr(-n) ELSE NatToStr(n)

W_True == <<"T", "r", "u", "e">>

W_False == <<"F", "a", "l", "s", "e">>

\* str_validator: a str as it is; an int or a bool through str(); no other
\* type (floats, which str() would render by repr, are outside the inputs)
CoerceStr(v) ==
    CASE v.t = "str"  -> Good(v)
      [] v.t = "int"  -> Good(PyStr(IntToStr(v.n)))
      [] v.t = "bool" -> Good(PyStr(IF v.b THEN W_True ELSE W_False))
      [] OTHER        -> Bad("type_error.str")

\* int_validator: an int as it is, anything else through int()
CoerceInt(v) ==
    CASE v.t = "int"  -> Good(v)
      [] v.t = "bool" -> Good(PyInt(IF v.b THEN 1 ELSE 0))
      [] v.t = "str"  -> LET Parsed(r) == IF r.ok THEN Good(r.v)
                                          ELSE Bad("type_error.integer")
                         IN  Parsed(ParseInt(v.s))
      [] v.t = "float" -> IF v.k = "fin" THEN Good(PyInt(FloatTrunc(v)))
                          ELSE Bad("type_error.integer")
      [] OTHER        -> Bad("type_error.integer")

\* float_validator: a float as it is, anything else through float()
CoerceFloat(v) ==
    CASE v.t = "float" -> Good(v)
      [] v.t = "int"   -> Good(PyFloat(v.n, 1))
      [] v.t = "bool"  -> Good(PyFloat(IF v.b THEN 1 ELSE 0, 1))
      [] v.t = "str"   -> LET Parsed(r) == IF r.ok THEN Good(r.v)
                                           ELSE Bad("type_error.float")
                          IN  Parsed(ParseFloat(v.s))
      [] OTHER         -> Bad("type_error.float")

\* pydantic.validators.BOOL_TRUE and BOOL_FALSE, the strings in them
BOOL_TRUE == {<<"1">>, <<"o", "n">>, <<"t">>, <<"t", "r", "u", "e">>,
              <<"y">>, <<"y", "e", "s">>}

BOOL_FALSE == {<<"0">>, <<"o", "f", "f">>, <<"f">>, <<"f", "a", "l", "s", "e">>,
               <<"n">>, <<"n", "o">>}

\* CoerceBool with the string looked up as spelled
CoerceBool_as_spelled(v) ==
    CASE v.t = "bool" -> Good(v)
      [] v.t = "str"  -> IF v.s \in BOOL_TRUE THEN Good(PyBool(TRUE))
                         ELSE IF v.s \in BOOL_FALSE THEN Good(PyBool(FALSE))
                         ELSE Bad("type_error.bool")
      [] OTHER        -> Bad("type_error.bool")

\* bool_validator: a bool as it is; a str lower-cased and looked up in
\* BOOL_TRUE and BOOL_FALSE; the numbers 1 and 0
CoerceBool(v) ==
    CASE v.t = "bool" -> Good(v)
      [] v.t = "str"  -> LET Lookup(l) == IF l \in BOOL_TRUE THEN Good(PyBool(TRUE))
                                          ELSE IF l \in BOOL_FALSE THEN Good(PyBool(FALSE))
                                          ELSE Bad("type_error.bool")
                         IN  Lookup(Lower(v.s))
      [] v.t = "int"  -> IF v.n = 1 THEN Good(PyBool(TRUE))
                         ELSE IF v.n = 0 THEN Good(PyBool(FALSE))
                         ELSE Bad("type_error.bool")
      [] v.t = "float" -> IF v.k = "fin" /\ v.num = v.den THEN Good(PyBool(TRUE))
                          ELSE IF v.k = "fin" /\ v.num = 0 THEN Good(PyBool(FALSE))
                          ELSE Bad("type_error.bool")
      [] OTHER        -> Bad("type_error.bool")

-----------------------------------------------------------------------------
(* The string literals of src/main.py, spelled out *)

W_items == <<"i", "t", "e", "m", "s">>

W_users == <<"u", "s", "e", "r", "s">>

W_me == <<"m", "e">>

W_models == <<"m", "o", "d", "e", "l", "s">>

W_files == <<"f", "i", "l", "e", "s">>

W_offers1 == <<"o", "f", "f", "e", "r", "s", "1">>

W_images1 == <<"i", "m", "a", "g", "e", "s", "1">>

W_multiple == <<"m", "u", "l", "t", "i", "p", "l", "e">>

W_index_weights1 ==
    <<"i", "n", "d", "e", "x", "-", "w", "e", "i", "g", "h", "t", "s", "1">>

W_openapi_json ==
    <<"o", "p", "e", "n", "a", "p", "i", ".", "j", "s", "o", "n">>

W_docs == <<"d", "o", "c", "s">>

W_oauth2_redirect ==
    <<"o", "a", "u", "t", "h", "2", "-", "r", "e", "d", "i", "r", "e", "c",
      "t">>

W_redoc == <<"r", "e", "d", "o", "c">>

W_alexnet == <<"a", "l", "e", "x", "n", "e", "t">>

W_resnet == <<"r", "e", "s", "n", "e", "t">>

W_lenet == <<"l", "e", "n", "e", "t">>

W_Hello_World == <<"H", "e", "l", "l", "o", " ", "W", "o", "r", "l", "d">>

W_the_current_user ==
    <<"t", "h", "e", " ", "c", "u", "r", "r", "e", "n", "t", " ", "u", "s",
      "e", "r">>

W_Deep_Learning_FTW ==
    <<"D", "e", "e", "p", " ", "L", "e", "a", "r", "n", "i", "n", "g", " ",
      "F", "T", "W", "!">>

W_LeCNN_all_the_images ==
    <<"L", "e", "C", "N", "N", " ", "a", "l", "l", " ", "t", "h", "e", " ",
      "i", "m", "a", "g", "e", "s">>

W_Have_some_residuals ==
    <<"H", "a", "v", "e", " ", "s", "o", "m", "e", " ", "r", "e", "s", "i",
      "d", "u", "a", "l", "s">>

W_long_description ==
    <<"l", "o", "n", "g", " ", "d", "e", "s", "c", "r", "i", "p", "t", "i",
      "o", "n">>

W_Foo == <<"F", "o", "o">>

W_Bar == <<"B", "a", "r">>

W_Baz == <<"B", "a", "z">>

W_foo == <<"f", "o", "o">>

W_bar == <<"b", "a", "r">>

W_woot == <<"w", "o", "o", "t">>

W_fixedquery == <<"f", "i", "x", "e", "d", "q", "u", "e", "r", "y">>

W_http == <<"h", "t", "t", "p", ":", "/", "/">>

W_https == <<"h", "t", "t", "p", "s", ":", "/", "/">>

\* the path segment "items<n>" of the numbered endpoints
ItemsN(n) == W_items \o NatToStr(n)

-----------------------------------------------------------------------------
(* Declarations: a parameter of a handler or a field of a model class.     *)
(* `in` is where the framework looks the value up; a bound or a length     *)
(* limit is a set holding the limit, empty when none was declared.         *)

Param(name, in, type) ==
    [name |-> name, alias |-> name, in |-> in, type |-> type, cls |-> "",
     required |-> TRUE, allow_none |-> FALSE, default |-> PyNone,
     ge |-> {}, le |-> {}, gt |-> {}, lt |-> {},
     min_length |-> {}, max_length |-> {}, regex |-> {}, embed |-> FALSE]

\* `= None` / Optional[...] = None / Query(None) / Cookie(None) / Field(None)
Optional(p) == [p EXCEPT !.required = FALSE, !.allow_none = TRUE]

\* `= <default>`
Default(p, d) == [p EXCEPT !.required = FALSE, !.default = d]

\* a field of a model class
Field(name, type) == Param(name, "field", type)

\* a field or parameter whose type is the class cls (or a list of them)
OfClass(p, cls) == [p EXCEPT !.cls = cls]

\* class ModelName(str, Enum)
ModelName == {W_alexnet, W_resnet, W_lenet}

EnumValues(cls) == IF cls = "ModelName" THEN ModelName ELSE {}

\* class Item(BaseModel)
Item ==
    << Field("name", "str"),
       Optional(Field("description", "str")),
       Field("price", "float"),
       Optional(Field("tax", "float")) >>

\* class Item2(BaseModel)
Item2 ==
    << Field("name", "str"),
       Optional(Field("description", "str")),
       Field("price", "float"),
       Optional(Field("tax", "float")) >>

\* class User(BaseModel)
User ==
    << Field("username", "str"),
       Optional(Field("full_name", "str")) >>

\* class Item3(BaseModel)
Item3 ==
    << Field("name", "str"),
       [Optional(Field("description", "str")) EXCEPT !.max_length = {300}],
       [Field("price", "float") EXCEPT !.gt = {0}],
       Optional(Field("tax", "float")) >>

\* class Item4(BaseModel)
Item4 ==
    << Field("name", "str"),
       Optional(Field("description", "str")),
       Field("price", "float"),
       Optional(Field("tax", "float")),
       Default(Field("tags", "list"), PyList(<<>>)) >>

\* class Image1(BaseModel)
Image1 ==
    << Field("url", "url"),
       Field("name", "str") >>

\* class Item5(BaseModel)
Item5 ==
    << Field("name", "str"),
       Optional(Field("description", "str")),
       Field("price", "float"),
       Optional(Field("tax", "float")),
       Default(Field("tags", "set_str"), PySet({})),
       Optional(OfClass(Field("image", "model"), "Image1")) >>

\* class Item6(BaseModel)
Item6 ==
    << Field("name", "str"),
       Optional(Field("description", "str")),
       Field("price", "float"),
       Optional(Field("tax", "float")),
       Default(Field("tags", "set_str"), PySet({})),
       Optional(OfClass(Field("images", "list_model"), "Image1")) >>

\* class Offer1(BaseModel)
Offer1 ==
    << Field("name", "str"),
       Optional(Field("description", "str")),
       Field("price", "float"),
       OfClass(Field("items", "list_model"), "Item6") >>

\* class Item7(BaseModel)
Item7 ==
    << Field("name", "str"),
       Optional(Field("description", "str")),
       Field("price", "float"),
       Optional(Field("tax", "float")) >>

\* the fields of a model class, in declaration order
ModelFields(cls) ==
    CASE cls = "Item"   -> Item
      [] cls = "Item2"  -> Item2
      [] cls = "User"   -> User
      [] cls = "Item3"  -> Item3
      [] cls = "Item4"  -> Item4
      [] cls = "Image1" -> Image1
      [] cls = "Item5"  -> Item5
      [] cls = "Item6"  -> Item6
      [] cls = "Offer1" -> Offer1
      [] cls = "Item7"  -> Item7

-----------------------------------------------------------------------------
(* Validation of one value against a declaration.  A result is [v, errs]:  *)
(* the validated value and the list of errors, empty when the value is     *)
(* valid.  An error is [loc, type].                                        *)

Err(loc, type) == [loc |-> loc, type |-> type]

Valid(v) == [v |-> v, errs |-> <<>>]

Invalid(loc, type) == [v |-> PyNone, errs |-> <<Err(loc, type)>>]

\* an int as a float, for the comparison with a bound
AsFloat(v) == IF v.t = "int" THEN PyFloat(v.n, 1) ELSE v

\* NumberSizeError with the exclusive bounds taken as inclusive
NumberSizeError_inclusive(p, v) ==
    LET f == AsFloat(v)
    IN  CASE \E b \in p.gt \cup p.ge : ~FloatGE(f, b) -> "value_error.number.not_ge"
          [] \E b \in p.lt \cup p.le : ~FloatLE(f, b) -> "value_error.number.not_le"
          [] OTHER -> ""

\* gt, ge, lt, le of a number (number_size_validator); "" when all hold
NumberSizeError(p, v) ==
    LET f == AsFloat(v)
    IN  CASE \E b \in p.gt : ~FloatGT(f, b) -> "value_error.number.not_gt"
          [] \E b \in p.ge : ~FloatGE(f, b) -> "value_error.number.not_ge"
          [] \E b \in p.lt : ~FloatLT(f, b) -> "value_error.number.not_lt"
          [] \E b \in p.le : ~FloatLE(f, b) -> "value_error.number.not_le"
          [] OTHER -> ""

\* re.match of the one pattern the source declares: `$` also matches just
\* before a final newline
RegexMatch(r, s) ==
    IF r = "^fixedquery$" THEN s \in {W_fixedquery, W_fixedquery \o <<"\n">>}
    ELSE FALSE

\* min_length, max_length, regex of a string; "" when all hold
StrConstraintError(p, s) ==
    CASE \E m \in p.min_length : Len(s) < m -> "value_error.any_str.min_length"
      [] \E m \in p.max_length : Len(s) > m -> "value_error.any_str.max_length"
      [] \E r \in p.regex : ~RegexMatch(r, s) -> "value_error.str.regex"
      [] OTHER -> ""

IsPrefix(pre, s) == Len(s) >= Len(pre) /\ SubSeq(s, 1, Len(pre)) = pre

\* the host of a URL: what follows the scheme, up to the first / ? # or :
UrlHost(rest) ==
    LET stops == {i \in DOMAIN rest : rest[i] \in {"/", "?", "#", ":"}}
    IN  IF stops = {} THEN rest
        ELSE SubSeq(rest, 1, (CHOOSE i \in stops : \A j \in stops : i <= j) - 1)

\* HttpUrl: scheme http or https, a host with a top-level domain; "" when valid
HttpUrlError(s) ==
    LET HostError(host) ==
            CASE host = <<>> -> "value_error.url.host"
              [] ~(\E i \in 2..(Len(host) - 1) : host[i] = ".")
                 \/ host[1] = "." \/ host[Len(host)] = "." -> "value_error.url.host"
              [] OTHER -> ""
        Scheme(l) ==
            CASE IsPrefix(W_https, l) ->
                    HostError(UrlHost(SubSeq(s, Len(W_https) + 1, Len(s))))
              [] IsPrefix(W_http, l) ->
                    HostError(UrlHost(SubSeq(s, Len(W_http) + 1, Len(s))))
              [] OTHER -> "value_error.url.scheme"
    IN  Scheme(Lower(s))

\* the elements of a finite set in some order
SetToSeq(S) ==
    CHOOSE q \in [1..Cardinality(S) -> S] : \A x \in S : \E i \in DOMAIN q : q[i] = x

\* the name of list index i (0-based) in an error's loc
IndexName(i) == Digits[i]

RECURSIVE ValidateValue(_, _, _)
RECURSIVE ValidateElems(_, _, _, _)
RECURSIVE ValidateFields(_, _, _, _)
RECURSIVE ValidateItems(_, _, _)

\* a value that may be None
ValidateOptional(p, v, loc) ==
    IF v.t = "None"
    THEN IF p.allow_none THEN Valid(PyNone)
         ELSE Invalid(loc, "type_error.none.not_allowed")
    ELSE ValidateValue(p, v, loc)

\* one field of a model, looked up by its alias in the mapping d
ValidateField(p, d, loc) ==
    IF p.alias \notin DOMAIN d
    THEN IF p.required THEN Invalid(loc, "value_error.missing") ELSE Valid(p.default)
    ELSE ValidateOptional(p, d[p.alias], loc)

\* BaseModel validation: the value as a mapping (what is no dict goes
\* through dict(), which makes the empty list the empty mapping; non-empty
\* lists are not among the inputs), then every field, all errors collected
ValidateModel(cls, v, loc) ==
    IF ~(v.t = "dict" \/ (v.t = "list" /\ v.a = <<>>))
    THEN Invalid(loc, "type_error.dict")
    ELSE LET Instance(r) == [v |-> PyModel(cls, r.d), errs |-> r.errs]
         IN  Instance(ValidateFields(ModelFields(cls),
                                     IF v.t = "dict" THEN v.d ELSE EmptyMap, loc, 1))

ValidateFields(fields, d, loc, i) ==
    IF i > Len(fields) THEN [d |-> EmptyMap, errs |-> <<>>]
    ELSE LET Both(this, rest) == [d |-> (fields[i].name :> this.v) @@ rest.d,
                                  errs |-> this.errs \o rest.errs]
         IN  Both(ValidateField(fields[i], d, loc \o <<fields[i].alias>>),
                  ValidateFields(fields, d, loc, i + 1))

\* the elements a[i..] of a list, each against the element declaration p
ValidateElems(p, a, loc, i) ==
    IF i > Len(a) THEN [vs |-> <<>>, errs |-> <<>>]
    ELSE LET Both(this, rest) ==
                 [vs |-> <<this.v>> \o rest.vs, errs |-> this.errs \o rest.errs]
         IN  Both(ValidateOptional(p, a[i], loc \o <<IndexName(i)>>),
                  ValidateElems(p, a, loc, i + 1))

\* the items of a JSON object given for a Dict[int, float], each as the key
\* through int() and the value: a key that is a field name is no number
DictEntries(v) ==
    IF v.t = "object"
    THEN [i \in DOMAIN v.items |->
             [k |-> CoerceInt(PyStr(v.items[i].key)), x |-> v.items[i].value]]
    ELSE LET ks == SetToSeq(DOMAIN v.d)
         IN  [i \in DOMAIN ks |-> [k |-> Bad("type_error.integer"), x |-> v.d[ks[i]]]]

\* the entries es[i..] of a Dict[int, float]
ValidateItems(es, loc, i) ==
    IF i > Len(es) THEN [d |-> EmptyMap, errs |-> <<>>]
    ELSE LET Pair(k, x, rest) ==
                 [d |-> IF k.ok /\ x.ok
                        THEN [n \in {k.v.n} \cup DOMAIN rest.d |->
                                 IF n \in DOMAIN rest.d THEN rest.d[n] ELSE x.v]
                        ELSE rest.d,
                  errs |-> (IF k.ok THEN <<>> ELSE <<Err(loc \o <<"__key__">>, k.err)>>)
                           \o (IF x.ok THEN <<>>
                               ELSE <<Err(loc \o <<"__value__">>, x.err)>>)
                           \o rest.errs]
         IN  Pair(es[i].k,
                  IF es[i].x.t = "None" THEN Bad("type_error.none.not_allowed")
                  ELSE CoerceFloat(es[i].x),
                  ValidateItems(es, loc, i + 1))

\* the declaration of the elements of a list or set declared by p
ElemOf(p, type) == [p EXCEPT !.type = type, !.allow_none = FALSE]

\* a value other than None against the declared type and constraints
ValidateValue(p, v, loc) ==
    LET Constrained(c, error) ==
            IF error # "" THEN Invalid(loc, error) ELSE Valid(c.v)
        Str(c) == IF ~c.ok THEN Invalid(loc, c.err)
                  ELSE Constrained(c, StrConstraintError(p, c.v.s))
        Number(c) == IF ~c.ok THEN Invalid(loc, c.err)
                     ELSE Constrained(c, NumberSizeError(p, c.v))
        Bool(c) == IF c.ok THEN Valid(c.v) ELSE Invalid(loc, c.err)
        Url(c) == IF ~c.ok THEN Invalid(loc, c.err)
                  ELSE Constrained(c, HttpUrlError(c.v.s))
        Listed(r) == [v |-> PyList(r.vs), errs |-> r.errs]
        AsSet(r) == IF r.errs # <<>> THEN [v |-> PyNone, errs |-> r.errs]
                    ELSE Valid(PySet({r.vs[i].s : i \in DOMAIN r.vs}))
        Mapping(r) == [v |-> PyIntDict(r.d), errs |-> r.errs]
    IN  CASE p.type = "str" -> Str(CoerceStr(v))
          [] p.type = "int" -> Number(CoerceInt(v))
          [] p.type = "float" -> Number(CoerceFloat(v))
          [] p.type = "bool" -> Bool(CoerceBool(v))
          [] p.type = "enum" ->
                IF v.t = "str" /\ v.s \in EnumValues(p.cls)
                THEN Valid(PyEnum(p.cls, v.s))
                ELSE Invalid(loc, "type_error.enum")
          [] p.type = "url" -> Url(CoerceStr(v))
          [] p.type = "model" -> ValidateModel(p.cls, v, loc)
          [] p.type = "list" ->
                IF v.t = "list" THEN Valid(v) ELSE Invalid(loc, "type_error.list")
          [] p.type \in {"list_str", "list_model"} ->
                IF v.t # "list" THEN Invalid(loc, "type_error.list")
                ELSE Listed(ValidateElems(
                                ElemOf(p, IF p.type = "list_str" THEN "str" ELSE "model"),
                                v.a, loc, 1))
          [] p.type = "set_str" ->
                IF v.t # "list" THEN Invalid(loc, "type_error.set")
                ELSE AsSet(ValidateElems(ElemOf(p, "str"), v.a, loc, 1))
          [] p.type = "dict_int_float" ->
                IF v.t \notin {"dict", "object"} THEN Invalid(loc, "type_error.dict")
                ELSE Mapping(ValidateItems(DictEntries(v), loc, 1))

-----------------------------------------------------------------------------
(* The route table.  A path is the sequence of its segments, the text      *)
(* between the slashes: "/" is <<"">>, "/items2/" is <<"items2", "">>.     *)
(* A path template is a sequence of literal segments, {name} parameters    *)
(* (one non-empty segment) and a final {name:path} (the rest of the path). *)

Lit(w) == [k |-> "lit", w |-> w, name |-> ""]

Var(name) == [k |-> "var", w |-> <<>>, name |-> name]

PathVar(name) == [k |-> "path", w |-> <<>>, name |-> name]

Route(methods, path, name, params) ==
    [methods |-> methods, path |-> path, name |-> name, params |-> params]

\* @app.get(path), @app.post(path), @app.put(path)
Get(path, name, params) == Route({"GET"}, path, name, params)

Post(path, name, params) == Route({"POST"}, path, name, params)

Put(path, name, params) == Route({"PUT"}, path, name, params)

PathParam(name, type) == Param(name, "path", type)

QueryParam(name, type) == Param(name, "query", type)

BodyParam(name, type, cls) == OfClass(Param(name, "body", type), cls)

Aliased(p, alias) == [p EXCEPT !.alias = alias]

\* "/<word>/{item_id}" and "/<word>/"
ItemPath(w) == <<Lit(w), Var("item_id")>>

SlashPath(w) == <<Lit(w), Lit(<<>>)>>

\* the routes FastAPI() itself registers, before any of the module's
\* (openapi_url, docs_url, swagger_ui_oauth2_redirect_url, redoc_url)
DocsRoutes ==
    << Route({"GET", "HEAD"}, <<Lit(W_openapi_json)>>, "openapi", <<>>),
       Route({"GET", "HEAD"}, <<Lit(W_docs)>>, "swagger_ui_html", <<>>),
       Route({"GET", "HEAD"}, <<Lit(W_docs), Lit(W_oauth2_redirect)>>,
             "swagger_ui_redirect", <<>>),
       Route({"GET", "HEAD"}, <<Lit(W_redoc)>>, "redoc_html", <<>>) >>

\* the parameters of item4(item_id: str, q: Optional[str] = None, short: bool = False)
item4_params ==
    << PathParam("item_id", "str"), Optional(QueryParam("q", "str")),
       Default(QueryParam("short", "bool"), PyBool(FALSE)) >>

\* the parameters of items6(item_id: str, needy: str, skip: int = 0,
\* limit: Optional[int] = None)
items6_params ==
    << PathParam("item_id", "str"), QueryParam("needy", "str"),
       Default(QueryParam("skip", "int"), PyInt(0)),
       Optional(QueryParam("limit", "int")) >>

\* the parameters of items19(*, item_id: int = Path(..., ge=0, le=1000),
\* q: str, size: float = Query(..., gt=0, lt=10))
\* items19_params with both bounds of size inclusive
items19_params_size_inclusive ==
    << [PathParam("item_id", "int") EXCEPT !.ge = {0}, !.le = {1000}],
       QueryParam("q", "str"),
       [QueryParam("size", "float") EXCEPT !.ge = {0}, !.le = {10}] >>

items19_params ==
    << [PathParam("item_id", "int") EXCEPT !.ge = {0}, !.le = {1000}],
       QueryParam("q", "str"),
       [QueryParam("size", "float") EXCEPT !.gt = {0}, !.lt = {10}] >>

\* the decorated handlers of src/main.py, in the order the module registers them
UserRoutes ==
    << Get(<<Lit(<<>>)>>, "root", <<>>),
       Get(ItemPath(W_items), "read_item", <<PathParam("item_id", "int")>>),
       Get(<<Lit(W_users), Lit(W_me)>>, "read_user_me", <<>>),
       Get(<<Lit(W_users), Var("user_id")>>, "read_user",
           <<PathParam("user_id", "str")>>),
       Get(<<Lit(W_models), Var("model_name")>>, "get_model",
           <<OfClass(PathParam("model_name", "enum"), "ModelName")>>),
       Get(<<Lit(W_files), PathVar("file_path")>>, "read_file",
           <<PathParam("file_path", "str")>>),
       Get(SlashPath(ItemsN(2)), "items2",
           << Default(QueryParam("skip", "int"), PyInt(0)),
              Default(QueryParam("limit", "int"), PyInt(10)) >>),
       Get(ItemPath(ItemsN(3)), "items3",
           << PathParam("item_id", "str"), Optional(QueryParam("q", "str")) >>),
       Get(ItemPath(ItemsN(4)), "item4", item4_params),
       Get(ItemPath(ItemsN(5)), "items5",
           << PathParam("item_id", "str"), QueryParam("needy", "str") >>),
       Get(ItemPath(ItemsN(6)), "items6", items6_params),
       Post(SlashPath(ItemsN(7)), "items7", <<BodyParam("item", "model", "Item")>>),
       Post(<<Lit(ItemsN(8))>>, "items8", <<BodyParam("item", "model", "Item")>>),
       Put(ItemPath(ItemsN(9)), "items9",
           << PathParam("item_id", "int"), BodyParam("item", "model", "Item") >>),
       Put(ItemPath(ItemsN(10)), "items10",
           << PathParam("item_id", "int"), BodyParam("item", "model", "Item"),
              Optional(QueryParam("q", "str")) >>),
       Get(SlashPath(ItemsN(11)), "items11",
           << [Optional(QueryParam("q", "str")) EXCEPT
                  !.min_length = {3}, !.max_length = {50},
                  !.regex = {"^fixedquery$"}] >>),
       Get(SlashPath(ItemsN(12)), "items12",
           << [QueryParam("q", "str") EXCEPT
                  !.min_length = {3}, !.max_length = {50}] >>),
       Get(SlashPath(ItemsN(13)), "items13",
           << Optional(QueryParam("q", "list_str")) >>),
       Get(SlashPath(ItemsN(14)), "items14",
           << [Default(QueryParam("q", "list_str"),
                       PyList(<<PyStr(W_foo), PyStr(W_bar), PyStr(W_woot)>>))
                  EXCEPT !.min_length = {3}] >>),
       Get(SlashPath(ItemsN(15)), "items15",
           << Aliased(Optional(QueryParam("q", "str")), "item-query") >>),
       Get(SlashPath(ItemsN(16)), "items16",
           << Optional(QueryParam("q", "str")) >>),
       Get(ItemPath(ItemsN(17)), "items17",
           << PathParam("item_id", "int"),
              Aliased(Optional(QueryParam("q", "str")), "item-query") >>),
       Get(ItemPath(ItemsN(18)), "items18",
           << PathParam("item_id", "int"), QueryParam("q", "str") >>),
       Get(ItemPath(ItemsN(19)), "items19", items19_params),
       Put(ItemPath(ItemsN(20)), "items20",
           << [PathParam("item_id", "int") EXCEPT !.ge = {0}, !.le = {1000}],
              Optional(QueryParam("q", "str")),
              Optional(BodyParam("item", "model", "Item2")) >>),
       Put(ItemPath(ItemsN(21)), "items21",
           << PathParam("item_id", "int"), BodyParam("item", "model", "Item2"),
              BodyParam("user", "model", "User") >>),
       Put(ItemPath(ItemsN(22)), "items22",
           << PathParam("item_id", "int"), BodyParam("item", "model", "Item2"),
              BodyParam("user", "model", "User"), Param("importance", "body", "int") >>),
       Put(ItemPath(ItemsN(23)), "items23",
           << PathParam("item_id", "int"), BodyParam("item", "model", "Item2"),
              BodyParam("user", "model", "User"),
              [Param("importance", "body", "int") EXCEPT !.gt = {0}],
              Optional(QueryParam("q", "str")) >>),
       Put(ItemPath(ItemsN(24)), "items24",
           << PathParam("item_id", "int"),
              [BodyParam("item", "model", "Item2") EXCEPT !.embed = TRUE] >>),
       Put(ItemPath(ItemsN(25)), "items25",
           << PathParam("item_id", "int"),
              [BodyParam("item", "model", "Item3") EXCEPT !.embed = TRUE] >>),
       Put(ItemPath(ItemsN(26)), "items26",
           << PathParam("item_id", "int"), BodyParam("item", "model", "Item4") >>),
       Put(ItemPath(ItemsN(27)), "items27",
           << PathParam("item_id", "int"), BodyParam("item", "model", "Item5") >>),
       Put(ItemPath(ItemsN(28)), "items28",
           << PathParam("item_id", "int"), BodyParam("item", "model", "Item6") >>),
       Post(SlashPath(W_offers1), "offers1",
            <<BodyParam("offer", "model", "Offer1")>>),
       Post(<<Lit(W_images1), Lit(W_multiple)>>, "images1",
            <<BodyParam("images", "list_model", "Image1")>>),
       Post(<<Lit(W_index_weights1)>>, "index_weights1",
            <<Param("weights", "body", "dict_int_float")>>),
       Put(ItemPath(ItemsN(29)), "items29",
           << PathParam("item_id", "int"), BodyParam("item", "model", "Item") >>),
       Put(ItemPath(ItemsN(30)), "items30",
           << PathParam("item_id", "int"), BodyParam("item", "model", "Item") >>),
       Put(ItemPath(ItemsN(31)), "items31",
           << PathParam("item_id", "int"), BodyParam("item", "model", "Item7") >>),
       Put(ItemPath(ItemsN(32)), "items32",
           << PathParam("item_id", "int"), BodyParam("item", "model", "Item7") >>),
       Get(SlashPath(ItemsN(33)), "items33",
           << Optional(Param("ads_id", "cookie", "str")) >> ) >>

\* app = FastAPI() with every route registered
app == DocsRoutes \o UserRoutes

-----------------------------------------------------------------------------
(* Routing (the framework's Router over `app`) *)

\* the segments p[i..] joined by "/"
RECURSIVE JoinFrom(_, _)
JoinFrom(p, i) ==
    IF i > Len(p) THEN <<>>
    ELSE IF i = Len(p) THEN p[i]
    ELSE p[i] \o <<"/">> \o JoinFrom(p, i + 1)

\* whether path p matches template tp from position i on
RECURSIVE SegmentsMatch(_, _, _)
SegmentsMatch(tp, p, i) ==
    IF i > Len(tp) THEN Len(p) = Len(tp)
    ELSE IF i > Len(p) THEN FALSE
    ELSE CASE tp[i].k = "lit"  -> p[i] = tp[i].w /\ SegmentsMatch(tp, p, i + 1)
           [] tp[i].k = "var"  -> p[i] # <<>> /\ SegmentsMatch(tp, p, i + 1)
           [] tp[i].k = "path" -> TRUE

\* the path parameters a matching path gives, by name
PathParams(tp, p) ==
    [n \in {tp[i].name : i \in {j \in DOMAIN tp : tp[j].k # "lit"}} |->
        LET i == CHOOSE j \in DOMAIN tp : tp[j].name = n
        IN  IF tp[i].k = "path" THEN JoinFrom(p, i) ELSE p[i]]

PathMatches(route, p) == SegmentsMatch(route.path, p, 1)

\* the path with its trailing slash removed, or added when it has none
RECURSIVE RStripSlash(_)
RStripSlash(p) ==
    IF p # <<>> /\ p[Len(p)] = <<>> THEN RStripSlash(SubSeq(p, 1, Len(p) - 1)) ELSE p

RedirectPath(p) == IF p[Len(p)] = <<>> THEN RStripSlash(p) ELSE p \o << <<>> >>

\* Resolve with the last matching route dispatched
Resolve_last(routes, method, p) ==
    LET full == {i \in DOMAIN routes : PathMatches(routes[i], p)
                                        /\ method \in routes[i].methods}
    IN  IF full # {}
        THEN [kind |-> "route", index |-> CHOOSE i \in full : \A j \in full : i >= j]
        ELSE [kind |-> "not_found", index |-> 0]

\* Resolve with a path registered under another method treated as unknown
Resolve_no_405(routes, method, p) ==
    LET full == {i \in DOMAIN routes : PathMatches(routes[i], p)
                                        /\ method \in routes[i].methods}
    IN  IF full # {}
        THEN [kind |-> "route", index |-> CHOOSE i \in full : \A j \in full : i <= j]
        ELSE [kind |-> "not_found", index |-> 0]

\* Router: the first route matching path and method is dispatched; else a
\* route matching the path alone answers 405; else, when toggling the
\* trailing slash makes some route match, a redirect; else 404
Resolve(routes, method, p) ==
    LET full == {i \in DOMAIN routes : PathMatches(routes[i], p)
                                        /\ method \in routes[i].methods}
        partial == {i \in DOMAIN routes : PathMatches(routes[i], p)}
    IN  CASE full # {} ->
                [kind |-> "route", index |-> CHOOSE i \in full : \A j \in full : i <= j]
          [] partial # {} -> [kind |-> "method_not_allowed", index |-> 0]
          [] p # << <<>> >>
             /\ \E i \in DOMAIN routes : PathMatches(routes[i], RedirectPath(p)) ->
                [kind |-> "redirect", index |-> 0]
          [] OTHER -> [kind |-> "not_found", index |-> 0]

-----------------------------------------------------------------------------
(* Requests and the extraction of a route's parameters.  A request is      *)
(* [method, path, query, cookies, body]: query maps a name to the values   *)
(* given for it, in order; cookies maps a name to its value; body is the   *)
(* decoded JSON body, PyNone when the request has none.                    *)

Request(method, path, query, cookies, body) ==
    [method |-> method, path |-> path, query |-> query, cookies |-> cookies,
     body |-> body]

\* no query string, no cookies
NoValues == [k \in {} |-> <<>>]

\* the raw value of a path, query or cookie parameter, PyNone when absent:
\* a list parameter takes every occurrence, a scalar one the last
RawValue(p, req, pathvals) ==
    CASE p.in = "path" -> PyStr(pathvals[p.alias])
      [] p.in = "query" ->
            IF p.alias \notin DOMAIN req.query THEN
                IF p.type = "list_str" THEN p.default ELSE PyNone
            ELSE IF p.type = "list_str"
            THEN PyList([i \in DOMAIN req.query[p.alias] |-> PyStr(req.query[p.alias][i])])
            ELSE PyStr(req.query[p.alias][Len(req.query[p.alias])])
      [] p.in = "cookie" ->
            IF p.alias \in DOMAIN req.cookies THEN PyStr(req.cookies[p.alias])
            ELSE PyNone

\* ParamToArg with the declared default given to every absent parameter
ParamToArg_default_when_absent(p, req, pathvals) ==
    LET value == RawValue(p, req, pathvals)
    IN  IF value.t = "None" THEN Valid(p.default)
        ELSE ValidateValue(p, value, <<p.in, p.alias>>)

\* request_params_to_args for one parameter: absent and required is an
\* error, absent with a default gives the default, else the value is validated
ParamToArg(p, req, pathvals) ==
    LET value == RawValue(p, req, pathvals)
        loc == <<p.in, p.alias>>
    IN  IF value.t = "None"
        THEN IF p.required THEN Invalid(loc, "value_error.missing")
             ELSE Valid(p.default)
        ELSE ValidateValue(p, value, loc)

\* whether the one body parameter is the whole body (no embed, no sibling)
FieldAliasOmitted(bodyParams) == Len(bodyParams) = 1 /\ ~bodyParams[1].embed

\* request_body_to_args for one parameter
BodyToArg(p, body, omitted) ==
    LET loc == IF omitted THEN <<"body">> ELSE <<"body", p.alias>>
        value == IF omitted THEN body
                 ELSE IF body.t = "dict" /\ p.alias \in DOMAIN body.d THEN body.d[p.alias]
                 ELSE PyNone
    IN  IF ~omitted /\ body.t \notin {"None", "dict"}
        THEN Invalid(loc, "value_error.missing")
        ELSE IF value.t = "None"
        THEN IF p.required THEN Invalid(loc, "value_error.missing")
             ELSE Valid(p.default)
        ELSE ValidateValue(p, value, loc)

\* the parameters of params among those whose `in` is in group, in order
SelectParams(params, group) ==
    LET idx == {i \in DOMAIN params : params[i].in \in group}
        F[k \in 0..Len(params)] ==
            IF k = 0 THEN <<>>
            ELSE IF k \in idx THEN Append(F[k - 1], params[k]) ELSE F[k - 1]
    IN  F[Len(params)]

\* SolveFrom stopping at the first parameter in error
RECURSIVE SolveFrom_first_error(_, _, _, _, _)
SolveFrom_first_error(ps, i, req, pathvals, omitted) ==
    IF i > Len(ps) THEN [values |-> EmptyMap, errors |-> <<>>]
    ELSE LET Both(this, rest) ==
                 IF this.errs # <<>> THEN [values |-> EmptyMap, errors |-> this.errs]
                 ELSE [values |-> (ps[i].name :> this.v) @@ rest.values,
                       errors |-> rest.errors]
         IN  Both(IF ps[i].in = "body" THEN BodyToArg(ps[i], req.body, omitted)
                  ELSE ParamToArg(ps[i], req, pathvals),
                  SolveFrom_first_error(ps, i + 1, req, pathvals, omitted))

\* solve_dependencies: path, query and cookie parameters, then the body's;
\* every parameter is examined and every error kept
RECURSIVE SolveFrom(_, _, _, _, _)
SolveFrom(ps, i, req, pathvals, omitted) ==
    IF i > Len(ps) THEN [values |-> EmptyMap, errors |-> <<>>]
    ELSE LET Both(this, rest) ==
                 [values |-> IF this.errs = <<>> THEN (ps[i].name :> this.v) @@ rest.values
                             ELSE rest.values,
                  errors |-> this.errs \o rest.errors]
         IN  Both(IF ps[i].in = "body" THEN BodyToArg(ps[i], req.body, omitted)
                  ELSE ParamToArg(ps[i], req, pathvals),
                  SolveFrom(ps, i + 1, req, pathvals, omitted))

SolveDependencies(route, req) ==
    LET pathvals == PathParams(route.path, req.path)
        bodyParams == SelectParams(route.params, {"body"})
        ordered == SelectParams(route.params, {"path"})
                   \o SelectParams(route.params, {"query"})
                   \o SelectParams(route.params, {"cookie"})
                   \o bodyParams
    IN  SolveFrom(ordered, 1, req, pathvals, FieldAliasOmitted(bodyParams))

-----------------------------------------------------------------------------
(* The handlers *)

\* {key: value}
Entry(key, value) == PyDict(key :> value)

\* d.update(u) / {**d, **u}: the keys of u win
Update(d, u) == PyDict(u.d @@ d.d)

\* item.dict()
ModelDict(m) == PyDict(m.d)

\* a[start:stop] on a Python list, negative indices counted from the end
Slice(a, start, stop) ==
    LET n == Len(a)
        Adjust(i) == IF i < 0 THEN (IF i + n < 0 THEN 0 ELSE i + n)
                     ELSE (IF i > n THEN n ELSE i)
    IN  SubSeq(a, Adjust(start) + 1, Adjust(stop))

\* the module-level list of src/main.py
FakeItemsDb ==
    << Entry("item_name", PyStr(W_Foo)),
       Entry("item_name", PyStr(W_Bar)),
       Entry("item_name", PyStr(W_Baz)) >>

\* {"items": [{"item_id": "Foo"}, {"item_id": "Bar"}]}
FooBarItems ==
    Entry("items", PyList(<<Entry("item_id", PyStr(W_Foo)),
                            Entry("item_id", PyStr(W_Bar))>>))

\* results = {...}; if q: results.update({"q": q}); return results
WithQ(results, q) == IF Truthy(q) THEN Update(results, Entry("q", q)) ELSE results

root == Entry("message", PyStr(W_Hello_World))

read_item(item_id) == Entry("item_id", item_id)

read_user_me == Entry("user_id", PyStr(W_the_current_user))

read_user(user_id) == Entry("user_id", user_id)

\* get_model with the second test on the wrong member
get_model_swapped(model_name) ==
    IF model_name = PyEnum("ModelName", W_alexnet)
    THEN Update(Entry("model_name", model_name),
                Entry("message", PyStr(W_Deep_Learning_FTW)))
    ELSE IF model_name.s = W_resnet
    THEN Update(Entry("model_name", model_name),
                Entry("message", PyStr(W_LeCNN_all_the_images)))
    ELSE Update(Entry("model_name", model_name),
                Entry("message", PyStr(W_Have_some_residuals)))

get_model(model_name) ==
    IF model_name = PyEnum("ModelName", W_alexnet)
    THEN Update(Entry("model_name", model_name),
                Entry("message", PyStr(W_Deep_Learning_FTW)))
    ELSE IF model_name.s = W_lenet
    THEN Update(Entry("model_name", model_name),
                Entry("message", PyStr(W_LeCNN_all_the_images)))
    ELSE Update(Entry("model_name", model_name),
                Entry("message", PyStr(W_Have_some_residuals)))

read_file(file_path) == Entry("file_path", file_path)

\* items2 with the slice ending at limit
items2_stop_at_limit(skip, limit) == PyList(Slice(fake_items_db, skip.n, limit.n))

items2(skip, limit) == PyList(Slice(fake_items_db, skip.n, skip.n + limit.n))

items3(item_id, q) ==
    IF Truthy(q) THEN Update(Entry("item_id", item_id), Entry("q", q))
    ELSE Entry("item_id", item_id)

item4(item_id, q, short) ==
    LET item0 == Entry("item_id", item_id)
        item1 == IF Truthy(q) THEN Update(item0, Entry("q", q)) ELSE item0
    IN  IF ~Truthy(short)
        THEN Update(item1, Entry("description", PyStr(W_long_description)))
        ELSE item1

items5(item_id, needy) == Update(Entry("item_id", item_id), Entry("needy", needy))

items6(item_id, needy, skip, limit) ==
    PyDict(("item_id" :> item_id) @@ ("needy" :> needy)
           @@ ("skip" :> skip) @@ ("limit" :> limit))

items7(item) == item

items8(item) ==
    IF Truthy(item.d["tax"])
    THEN Update(ModelDict(item),
                Entry("price_with_tax", FloatAdd(item.d["price"], item.d["tax"])))
    ELSE ModelDict(item)

items9(item_id, item) == Update(Entry("item_id", item_id), ModelDict(item))

items10(item_id, item, q) ==
    WithQ(Update(Entry("item_id", item_id), ModelDict(item)), q)

items11(q) == WithQ(FooBarItems, q)

items12(q) == WithQ(FooBarItems, q)

items13(q) == Entry("q", q)

items14(q) == Entry("q", q)

items15(q) == WithQ(FooBarItems, q)

items16(q) == WithQ(FooBarItems, q)

items17(item_id, q) == WithQ(Entry("item_id", item_id), q)

items18(item_id, q) == WithQ(Entry("item_id", item_id), q)

items19(item_id, q, size) == WithQ(Entry("item_id", item_id), q)

items20(item_id, q, item) ==
    LET results == WithQ(Entry("item_id", item_id), q)
    IN  IF Truthy(item) THEN Update(results, Entry("item", item)) ELSE results

items21(item_id, item, user) ==
    PyDict(("item_id" :> item_id) @@ ("item" :> item) @@ ("user" :> user))

items22(item_id, item, user, importance) ==
    PyDict(("item_id" :> item_id) @@ ("item" :> item) @@ ("user" :> user))

items23(item_id, item, user, importance, q) ==
    WithQ(PyDict(("item_id" :> item_id) @@ ("item" :> item) @@ ("user" :> user)
                 @@ ("importance" :> importance)), q)

items24(item_id, item) == PyDict(("item_id" :> item_id) @@ ("item" :> item))

items25(item_id, item) == PyDict(("item_id" :> item_id) @@ ("item" :> item))

items26(item_id, item) == PyDict(("item_id" :> item_id) @@ ("item" :> item))

items27(item_id, item) == PyDict(("item_id" :> item_id) @@ ("item" :> item))

items28(item_id, item) == PyDict(("item_id" :> item_id) @@ ("item" :> item))

offers1(offer) == offer

images1(images) == images

index_weights1(weights) == weights

items29(item_id, item) == PyDict(("item_id" :> item_id) @@ ("item" :> item))

items30(item_id, item) == PyDict(("item_id" :> item_id) @@ ("item" :> item))

items31(item_id, item) == PyDict(("item_id" :> item_id) @@ ("item" :> item))

items32(item_id, item) == PyDict(("item_id" :> item_id) @@ ("item" :> item))

items33(ads_id) == Entry("ads_id", ads_id)

\* the handler `name` called with the validated arguments a
Call(name, a) ==
    CASE name = "root" -> root
      [] name = "read_item" -> read_item(a["item_id"])
      [] name = "read_user_me" -> read_user_me
      [] name = "read_user" -> read_user(a["user_id"])
      [] name = "get_model" -> get_model(a["model_name"])
      [] name = "read_file" -> read_file(a["file_path"])
      [] name = "items2" -> items2(a["skip"], a["limit"])
      [] name = "items3" -> items3(a["item_id"], a["q"])
      [] name = "item4" -> item4(a["item_id"], a["q"], a["short"])
      [] name = "items5" -> items5(a["item_id"], a["needy"])
      [] name = "items6" -> items6(a["item_id"], a["needy"], a["skip"], a["limit"])
      [] name = "items7" -> items7(a["item"])
      [] name = "items8" -> items8(a["item"])
      [] name = "items9" -> items9(a["item_id"], a["item"])
      [] name = "items10" -> items10(a["item_id"], a["item"], a["q"])
      [] name = "items11" -> items11(a["q"])
      [] name = "items12" -> items12(a["q"])
      [] name = "items13" -> items13(a["q"])
      [] name = "items14" -> items14(a["q"])
      [] name = "items15" -> items15(a["q"])
      [] name = "items16" -> items16(a["q"])
      [] name = "items17" -> items17(a["item_id"], a["q"])
      [] name = "items18" -> items18(a["item_id"], a["q"])
      [] name = "items19" -> items19(a["item_id"], a["q"], a["size"])
      [] name = "items20" -> items20(a["item_id"], a["q"], a["item"])
      [] name = "items21" -> items21(a["item_id"], a["item"], a["user"])
      [] name = "items22" ->
            items22(a["item_id"], a["item"], a["user"], a["importance"])
      [] name = "items23" ->
            items23(a["item_id"], a["item"], a["user"], a["importance"], a["q"])
      [] name = "items24" -> items24(a["item_id"], a["item"])
      [] name = "items25" -> items25(a["item_id"], a["item"])
      [] name = "items26" -> items26(a["item_id"], a["item"])
      [] name = "items27" -> items27(a["item_id"], a["item"])
      [] name = "items28" -> items28(a["item_id"], a["item"])
      [] name = "offers1" -> offers1(a["offer"])
      [] name = "images1" -> images1(a["images"])
      [] name = "index_weights1" -> index_weights1(a["weights"])
      [] name = "items29" -> items29(a["item_id"], a["item"])
      [] name = "items30" -> items30(a["item_id"], a["item"])
      [] name = "items31" -> items31(a["item_id"], a["item"])
      [] name = "items32" -> items32(a["item_id"], a["item"])
      [] name = "items33" -> items33(a["ads_id"])
      [] name \in {"openapi", "swagger_ui_html", "swagger_ui_redirect", "redoc_html"} ->
            PyStr(<<>>)

\* ModuleStateAfter had items2 removed the slice it returns from the list
ModuleStateAfter_del(name, a) ==
    IF name = "items2"
    THEN SubSeq(fake_items_db, 1, Len(fake_items_db) - Len(Call(name, a).a))
    ELSE fake_items_db

\* fake_items_db after the handler `name` ran with arguments a: items2, the
\* only handler that names the list, takes a slice of it (a new list) and
\* no handler assigns to it or calls a method on it
ModuleStateAfter(name, a) == fake_items_db

-----------------------------------------------------------------------------
(* Responses *)

W_Not_Found == <<"N", "o", "t", " ", "F", "o", "u", "n", "d">>

W_Method_Not_Allowed ==
    <<"M", "e", "t", "h", "o", "d", " ", "N", "o", "t", " ", "A", "l", "l", "o",
      "w", "e", "d">>

W_Internal_Server_Error ==
    <<"I", "n", "t", "e", "r", "n", "a", "l", " ", "S", "e", "r", "v", "e", "r",
      " ", "E", "r", "r", "o", "r">>

Response(status, body, detail) == [status |-> status, body |-> body, detail |-> detail]

\* no response yet
NoResponse == Response(0, PyNone, <<>>)

NotFound == Response(404, Entry("detail", PyStr(W_Not_Found)), <<>>)

MethodNotAllowed == Response(405, Entry("detail", PyStr(W_Method_Not_Allowed)), <<>>)

\* RedirectResponse to the path with the trailing slash toggled
Redirect == Response(307, PyStr(<<>>), <<>>)

\* the RequestValidationError handler: every error, in one response
ValidationErrorResponse(errors) == Response(422, PyNone, errors)

\* the server's answer to an exception no handler caught
InternalServerError == Response(500, PyStr(W_Internal_Server_Error), <<>>)

\* whether a value holds a float that is nan or infinite
RECURSIVE HasNonFinite(_)
HasNonFinite(v) ==
    CASE v.t = "float" -> v.k # "fin"
      [] v.t = "list"  -> \E i \in DOMAIN v.a : HasNonFinite(v.a[i])
      [] v.t \in {"dict", "model", "intdict"} ->
            \E k \in DOMAIN v.d : HasNonFinite(v.d[k])
      [] OTHER -> FALSE

\* jsonable_encoder: a model as the mapping of its fields, an enum member
\* as its value, a set as a list, int keys as strings
RECURSIVE ToJson(_)
ToJson(v) ==
    CASE v.t = "model" -> PyDict([k \in DOMAIN v.d |-> ToJson(v.d[k])])
      [] v.t = "dict"  -> PyDict([k \in DOMAIN v.d |-> ToJson(v.d[k])])
      [] v.t = "intdict" ->
            PyDict([k \in {IntToStr(n) : n \in DOMAIN v.d} |->
                       ToJson(v.d[CHOOSE n \in DOMAIN v.d : IntToStr(n) = k])])
      [] v.t = "list"  -> PyList([i \in DOMAIN v.a |-> ToJson(v.a[i])])
      [] v.t = "set"   -> PyList([i \in 1..Cardinality(v.e) |-> PyStr(SetToSeq(v.e)[i])])
      [] v.t = "enum"  -> PyStr(v.s)
      [] OTHER -> v

\* the JSON response of a handler's return value: json.dumps(allow_nan=False)
\* raises on nan and infinity, which the server answers with 500
JSONResponse(result) ==
    IF HasNonFinite(result) THEN InternalServerError
    ELSE Response(200, ToJson(result), <<>>)

-----------------------------------------------------------------------------
(* The requests the model sends *)

\* a query string (or the cookies) from a mapping of names to the values
\* given, a name with no value left out
Values(f) == [n \in {k \in DOMAIN f : f[k] # <<>>} |-> f[n]]

\* a GET request with a query string
GetQ(path, f) == Request("GET", path, Values(f), NoValues, PyNone)

\* a request with no query string, cookies or body
Bare(method, path) == Request(method, path, NoValues, NoValues, PyNone)

W_abc == <<"a", "b", "c">>

W_x == <<"x">>

\* the largest skip and limit sent to /items2/
MaxSkip == 4

MaxLimit == 4

\* GET /items2/ with skip and limit absent, negative, in and out of range,
\* or not a number
Items2Requests ==
    LET skips == {<<>>, <<W_abc>>} \cup {<<IntToStr(n)>> : n \in -2..MaxSkip}
        limits == {<<>>, <<W_abc>>, <<IntToStr(10)>>}
                  \cup {<<IntToStr(n)>> : n \in -2..MaxLimit}
    IN  {GetQ(<<ItemsN(2), <<>>>>, ("skip" :> s) @@ ("limit" :> l)) :
            s \in skips, l \in limits}

Methods == {"GET", "POST", "PUT", "HEAD", "DELETE"}

W_5 == <<"5">>

W_alice == <<"a", "l", "i", "c", "e">>

W_nothing == <<"n", "o", "t", "h", "i", "n", "g">>

\* every method on paths that are registered, registered under another
\* method, registered with or without the final slash, or not at all
RoutingRequests ==
    LET paths == { << <<>> >>,
                   <<W_items, W_5>>, <<W_items, W_5, <<>>>>, <<W_items>>,
                   <<W_items, W_abc>>,
                   <<ItemsN(7), <<>>>>, <<ItemsN(7)>>,
                   <<ItemsN(8)>>, <<ItemsN(8), <<>>>>,
                   <<ItemsN(2)>>, <<ItemsN(33), <<>>>>, <<ItemsN(9), W_5>>,
                   <<W_users, W_me>>, <<W_users, W_me, <<>>>>,
                   <<W_users, W_alice>>, <<W_users, <<>>>>, <<W_users>>,
                   <<W_nothing>>, <<W_nothing, <<>>>>, <<W_items, W_5, W_x>>,
                   <<W_docs>>, <<W_docs, W_oauth2_redirect>>,
                   <<W_openapi_json>>, <<W_redoc>>, <<W_redoc, <<>>>>,
                   <<W_files, <<>>>>, <<W_files>>, <<W_files, W_abc, W_x>>,
                   <<W_files, W_abc, <<>>>>,
                   <<W_images1, W_multiple>>, <<W_images1>>,
                   <<W_index_weights1>>, <<W_offers1, <<>>>>, <<W_offers1>> }
    IN  {Bare(m, p) : m \in Methods, p \in paths}

\* GET /users/<x>
UsersRequests ==
    {Bare("GET", <<W_users, x>>) :
        x \in {W_me, <<"M", "e">>, <<"m">>, <<"m", "e", "1">>, <<"m", "e", " ">>,
               W_alice, W_5}}

\* GET /models/<x>
ModelsRequests ==
    {Bare("GET", <<W_models, x>>) :
        x \in {W_alexnet, W_resnet, W_lenet, <<"A", "l", "e", "x", "n", "e", "t">>,
               <<"L", "E", "N", "E", "T">>, W_resnet \o <<" ">>, W_abc, W_5}}

\* the values of `short` the source's comments name, their other spellings,
\* and values that are no boolean
ShortValues ==
    { <<"y", "e", "s">>, <<"o", "n">>, <<"1">>, <<"t", "r", "u", "e">>,
      <<"T", "r", "u", "e">>,
      <<"n", "o">>, <<"o", "f", "f">>, <<"0">>, <<"f", "a", "l", "s", "e">>,
      <<"F", "a", "l", "s", "e">>,
      <<"t">>, <<"y">>, <<"f">>, <<"n">>, <<"T", "R", "U", "E">>, <<"Y", "e", "s">>,
      <<"O", "F", "F">>, <<"N", "o">>,
      <<"2">>, <<"-", "1">>, <<>>, <<"m", "a", "y", "b", "e">>, <<"t", "r", "u">>,
      <<"1", "0">>, <<"1", ".", "0">>, <<" ", "1">>, <<"o", "k">> }

\* GET /items3/foo and /items4/foo with q and short absent or given
Items4Requests ==
    {GetQ(<<ItemsN(4), W_foo>>, ("q" :> q) @@ ("short" :> sh)) :
        q \in {<<>>, <<W_x>>, << <<>> >>},
        sh \in {<<>>} \cup {<<v>> : v \in ShortValues}
               \cup {<<W_True, <<"0">>>>, <<<<"0">>, W_abc>>}}
    \cup {GetQ(<<ItemsN(3), W_foo>>, "q" :> q) : q \in {<<>>, <<W_x>>, << <<>> >>}}

\* GET /items5/foo and /items6/foo with each parameter absent or given
Items6Requests ==
    {GetQ(<<ItemsN(5), W_foo>>, ("needy" :> n) @@ ("other" :> o)) :
        n \in {<<>>, <<W_x>>, << <<>> >>}, o \in {<<>>, <<W_x>>}}
    \cup {GetQ(<<ItemsN(6), W_foo>>,
               ("needy" :> n) @@ ("skip" :> sk) @@ ("limit" :> l)) :
            n \in {<<>>, <<W_x>>},
            sk \in {<<>>, <<W_5>>, <<W_abc>>, <<<<"0">>>>},
            l \in {<<>>, <<W_5>>, <<W_abc>>}}

\* a string of n copies of the character c
Repeat(c, n) == [i \in 1..n |-> c]

\* GET /items11/ to /items18/ with q (or item-query) absent, valid, too
\* short, too long, not matching, or given more than once
QueryRequests ==
    LET qs == {<<>>, <<W_fixedquery>>, <<W_fixedquery \o <<"\n">>>>, <<W_foo>>,
               <<<<"a", "b">>>>, << <<>> >>, <<Repeat("a", 51)>>, <<Repeat("a", 50)>>,
               <<W_fixedquery \o W_x>>, <<W_foo, W_bar>>, <<W_foo, <<"a">>>>,
               <<W_foo, W_bar, W_woot>>}
    IN  {GetQ(<<ItemsN(n), <<>>>>, ("q" :> q) @@ ("item-query" :> iq)) :
            n \in 11..16, q \in qs, iq \in {<<>>, <<W_abc>>}}
        \cup {GetQ(<<ItemsN(n), id>>, ("q" :> q) @@ ("item-query" :> iq)) :
                n \in 17..18, id \in {W_5, W_abc},
                q \in {<<>>, <<W_foo>>, << <<>> >>}, iq \in {<<>>, <<W_abc>>}}

\* GET /items19/<item_id> with item_id and size below, on, between and
\* above their bounds, not numbers, or (size, q) absent
Items19Requests ==
    LET ids == {IntToStr(n) : n \in {-1, 0, 1, 500, 999, 1000, 1001}}
               \cup {W_abc, <<"1", ".", "5">>, <<" ", "7">>}
        sizes == {<<>>, <<<<"0">>>>, <<<<"0", ".", "0", "1">>>>, <<W_5>>,
                  <<<<"9", ".", "9", "9">>>>, <<<<"1", "0">>>>,
                  <<<<"1", "0", ".", "0">>>>, <<<<"1", "0", ".", "5">>>>,
                  <<<<"-", "1">>>>, <<<<"-", "0", ".", "5">>>>, <<W_inf>>,
                  <<<<"-">> \o W_inf>>, <<W_nan>>, <<W_abc>>, << <<>> >>,
                  <<W_abc, W_5>>, <<W_5, <<"1", "0">>>>}
    IN  {GetQ(<<ItemsN(19), id>>, ("q" :> q) @@ ("size" :> sz)) :
            id \in ids, q \in {<<>>, <<W_x>>, << <<>> >>}, sz \in sizes}

\* GET /items33/ with and without the cookie
CookieRequests ==
    {Request("GET", <<ItemsN(33), <<>>>>, NoValues, Values(c), PyNone) :
        c \in {"ads_id" :> <<>>, "ads_id" :> W_abc, "other" :> W_abc}}

\* a request with a JSON body
WithBody(method, path, f, body) == Request(method, path, Values(f), NoValues, body)

ItemMin == PyDict(("name" :> PyStr(W_Foo)) @@ ("price" :> PyFloat(354, 10)))

ItemFull ==
    PyDict(("name" :> PyStr(W_Foo)) @@ ("description" :> PyStr(W_abc))
           @@ ("price" :> PyFloat(354, 10)) @@ ("tax" :> PyFloat(32, 10)))

\* bodies for an Item: valid, converted, with fields missing, null or of
\* the wrong type, with a price or tax that is not finite, and no object
ItemBodies ==
    { ItemMin, ItemFull,
      PyDict(("name" :> PyStr(W_Bar)) @@ ("price" :> PyStr(<<"3", "5", ".", "3">>))),
      PyDict(("name" :> PyInt(5)) @@ ("price" :> PyInt(35)) @@ ("tax" :> PyInt(0))),
      PyDict(("name" :> PyStr(W_Baz)) @@ ("price" :> PyStr(W_abc))),
      PyDict("price" :> PyFloat(354, 10)),
      PyDict(EmptyMap),
      PyDict(("name" :> PyNone) @@ ("price" :> PyNone)),
      PyDict(("name" :> PyStr(W_Foo)) @@ ("price" :> PyNaN)),
      PyDict(("name" :> PyStr(W_Foo)) @@ ("price" :> PyStr(W_inf))),
      PyDict(("name" :> PyStr(W_Foo)) @@ ("price" :> PyInt(1)) @@ ("tax" :> PyInf(1))),
      PyDict(("name" :> PyList(<<>>)) @@ ("price" :> PyInt(1)) @@ ("tax" :> PyNone)),
      PyNone, PyList(<<>>), PyStr(W_abc) }

UserMin == PyDict("username" :> PyStr(W_alice))

\* bodies of /items21 to /items23: item, user and importance under their keys
EmbeddedBodies ==
    {PyDict(Values(("item" :> i) @@ ("user" :> u) @@ ("importance" :> n))) :
        i \in {<<>>, ItemMin, PyDict(EmptyMap), PyNone},
        u \in {<<>>, UserMin, PyDict("full_name" :> PyStr(W_abc))},
        n \in {<<>>, PyInt(5), PyInt(1), PyInt(0), PyInt(-1), PyStr(W_5), PyStr(W_abc),
               PyFloat(25, 10), PyNaN}}
    \cup {PyNone, ItemMin, PyList(<<>>)}

ImageOk == PyDict(("url" :> PyStr(W_http \o <<"a", ".", "i", "o", "/", "x">>))
                  @@ ("name" :> PyStr(W_abc)))

ImageBad == PyDict(("url" :> PyStr(W_abc)) @@ ("name" :> PyStr(W_abc)))

\* bodies for Item3 to Item6: the constrained and the nested fields
NestedBodies ==
    { ItemMin, PyNone,
      PyDict("item" :> ItemMin),
      PyDict("item" :> PyDict(("name" :> PyStr(W_Foo)) @@ ("price" :> PyInt(0)))),
      PyDict("item" :> PyDict(("name" :> PyStr(W_Foo)) @@ ("price" :> PyInt(1))
                              @@ ("description" :> PyStr(Repeat("d", 301))))),
      PyDict(("name" :> PyStr(W_Foo)) @@ ("price" :> PyInt(1))
             @@ ("tags" :> PyList(<<PyStr(W_foo), PyStr(W_foo), PyStr(W_bar)>>))),
      PyDict(("name" :> PyStr(W_Foo)) @@ ("price" :> PyInt(1))
             @@ ("tags" :> PyStr(W_foo))),
      PyDict(("name" :> PyStr(W_Foo)) @@ ("price" :> PyInt(1))
             @@ ("tags" :> PyList(<<PyStr(W_foo), PyNone>>))),
      PyDict(("name" :> PyStr(W_Foo)) @@ ("price" :> PyInt(1)) @@ ("image" :> ImageOk)
             @@ ("images" :> PyList(<<ImageOk, ImageOk>>))),
      PyDict(("name" :> PyStr(W_Foo)) @@ ("price" :> PyInt(1)) @@ ("image" :> ImageBad)
             @@ ("images" :> PyList(<<ImageOk, ImageBad, PyDict(EmptyMap)>>))) }

\* bodies of /offers1/
OfferBodies ==
    { PyNone, ItemMin,
      PyDict(("name" :> PyStr(W_Foo)) @@ ("price" :> PyInt(1))
             @@ ("items" :> PyList(<<ItemMin, ItemFull>>))),
      PyDict(("name" :> PyStr(W_Foo)) @@ ("price" :> PyInt(1))
             @@ ("items" :> PyList(<<ItemMin, PyDict(EmptyMap)>>))),
      PyDict(("name" :> PyStr(W_Foo)) @@ ("price" :> PyInt(1))
             @@ ("items" :> ItemMin)) }

\* bodies of /images1/multiple
ImagesBodies ==
    { PyNone, ItemMin, PyList(<<ImageOk, ImageOk>>), PyList(<<ImageOk, ImageBad>>),
      PyList(<<>>), PyStr(W_abc) }

\* bodies of /index-weights1
WeightsBodies ==
    { PyNone, ItemMin, PyStr(W_abc),
      PyObject(<<KeyValue(<<"1">>, PyFloat(11, 10)), KeyValue(<<"2">>, PyInt(2))>>),
      PyObject(<<KeyValue(<<"0", "1">>, PyFloat(11, 10)), KeyValue(<<"1">>, PyInt(2))>>),
      PyObject(<<KeyValue(<<"1">>, PyFloat(11, 10)), KeyValue(W_x, PyStr(W_abc))>>),
      PyObject(<<KeyValue(<<"1">>, PyNaN)>>) }

\* the POST and PUT endpoints with the bodies above
BodyRequests ==
    {WithBody("POST", p, "q" :> <<>>, b) :
        p \in {<<ItemsN(7), <<>>>>, <<ItemsN(8)>>}, b \in ItemBodies}
    \cup {WithBody("PUT", <<ItemsN(n), id>>, "q" :> q, b) :
            n \in {9, 10, 20, 29, 30, 31, 32}, id \in {W_5, W_abc, IntToStr(1001)},
            q \in {<<>>, <<W_x>>}, b \in ItemBodies}
    \cup {WithBody("PUT", <<ItemsN(n), id>>, "q" :> q, b) :
            n \in 21..23, id \in {W_5, W_abc}, q \in {<<>>, <<W_x>>},
            b \in EmbeddedBodies}
    \cup {WithBody("PUT", <<ItemsN(n), W_5>>, "q" :> <<>>, b) :
            n \in 24..28, b \in NestedBodies}
    \cup {WithBody("POST", <<W_offers1, <<>>>>, "q" :> <<>>, b) : b \in OfferBodies}
    \cup {WithBody("POST", <<W_images1, W_multiple>>, "q" :> <<>>, b) :
            b \in ImagesBodies}
    \cup {WithBody("POST", <<W_index_weights1>>, "q" :> <<>>, b) : b \in WeightsBodies}

Requests ==
    Items2Requests \cup RoutingRequests \cup UsersRequests \cup ModelsRequests
    \cup Items4Requests \cup Items6Requests \cup QueryRequests
    \cup Items19Requests \cup CookieRequests \cup BodyRequests

-----------------------------------------------------------------------------
(* The server: each task takes a request through matching, validation, the *)
(* handler and the response.                                               *)

Tasks == {1}

Idle ==
    [pc |-> "idle", req |-> Bare("", <<>>), route |-> 0, args |-> EmptyMap,
     errors |-> <<>>, called |-> "", result |-> PyNone, resp |-> NoResponse]

Init ==
    /\ fake_items_db = FakeItemsDb
    /\ task = [t \in Tasks |-> Idle]

\* a request arrives
Receive(t, r) ==
    /\ task[t].pc = "idle"
    /\ task' = [task EXCEPT ![t] = [Idle EXCEPT !.pc = "matching", !.req = r]]
    /\ UNCHANGED fake_items_db

\* the router finds the route, or answers 405, 307 or 404 itself
Match(t) ==
    /\ task[t].pc = "matching"
    /\ LET Matched(m) ==
               CASE m.kind = "route" ->
                        [task[t] EXCEPT !.pc = "validating", !.route = m.index]
                 [] m.kind = "method_not_allowed" ->
                        [task[t] EXCEPT !.pc = "done", !.resp = MethodNotAllowed]
                 [] m.kind = "redirect" ->
                        [task[t] EXCEPT !.pc = "done", !.resp = Redirect]
                 [] OTHER -> [task[t] EXCEPT !.pc = "done", !.resp = NotFound]
       IN  task' = [task EXCEPT
                       ![t] = Matched(Resolve(app, task[t].req.method, task[t].req.path))]
    /\ UNCHANGED fake_items_db

\* the route's parameters are extracted and validated; any error ends the
\* request with 422
Validate(t) ==
    /\ task[t].pc = "validating"
    /\ LET Solved(solved) ==
               IF solved.errors = <<>>
               THEN [task[t] EXCEPT !.pc = "dispatching", !.args = solved.values]
               ELSE [task[t] EXCEPT !.pc = "done", !.errors = solved.errors,
                                    !.resp = ValidationErrorResponse(solved.errors)]
       IN  task' = [task EXCEPT
                       ![t] = Solved(SolveDependencies(app[task[t].route], task[t].req))]
    /\ UNCHANGED fake_items_db

\* the handler runs with the validated arguments
Dispatch(t) ==
    /\ task[t].pc = "dispatching"
    /\ task' = [task EXCEPT ![t] =
            [@ EXCEPT !.pc = "responding", !.called = app[task[t].route].name,
                      !.result = Call(app[task[t].route].name, task[t].args)]]
    /\ fake_items_db' = ModuleStateAfter(app[task[t].route].name, task[t].args)

\* the handler's return value is serialized and sent
Respond(t) ==
    /\ task[t].pc = "responding"
    /\ task' = [task EXCEPT ![t] =
            [@ EXCEPT !.pc = "done", !.resp = JSONResponse(task[t].result)]]
    /\ UNCHANGED fake_items_db

\* the task is over; another request may come
Close(t) ==
    /\ task[t].pc = "done"
    /\ task' = [task EXCEPT ![t] = Idle]
    /\ UNCHANGED fake_items_db

Next ==
    \E t \in Tasks :
        \/ \E r \in Requests : Receive(t, r)
        \/ Match(t)
        \/ Validate(t)
        \/ Dispatch(t)
        \/ Respond(t)
        \/ Close(t)

Spec == Init /\ [][Next]_vars

-----------------------------------------------------------------------------
(* Concurrent requests: several tasks in flight, their steps interleaved *)

NumTasks == 2

ConcTasks == 1..NumTasks

ConcRequests ==
    { GetQ(<<ItemsN(2), <<>>>>, ("skip" :> <<<<"1">>>>) @@ ("limit" :> <<<<"1">>>>)),
      Bare("GET", <<ItemsN(2), <<>>>>),
      GetQ(<<ItemsN(4), W_foo>>, "short" :> <<<<"o", "n">>>>),
      GetQ(<<ItemsN(11), <<>>>>, "q" :> <<W_fixedquery>>),
      GetQ(<<ItemsN(11), <<>>>>, "q" :> <<W_x>>),
      Bare("POST", <<W_items, W_5>>),
      WithBody("POST", <<ItemsN(8)>>, "q" :> <<>>, ItemFull) }

ConcInit ==
    /\ fake_items_db = FakeItemsDb
    /\ task = [t \in ConcTasks |-> Idle]

ConcNext ==
    \E t \in ConcTasks :
        \/ \E r \in ConcRequests : Receive(t, r)
        \/ Match(t)
        \/ Validate(t)
        \/ Dispatch(t)
        \/ Respond(t)
        \/ Close(t)

ConcSpec == ConcInit /\ [][ConcNext]_vars

-----------------------------------------------------------------------------
(* Properties *)

Done(t) == task[t].pc = "done"

\* the last value the request gives for query parameter n
LastOf(req, n) == req.query[n][Len(req.query[n])]

\* C3: GET /users/me always runs read_user_me and answers {"user_id": "the
\* current user"}, never read_user with user_id "me"; every other
\* GET /users/<x> runs read_user with user_id = x
C3_LiteralRouteWins ==
    \A t \in DOMAIN task :
        /\ task[t].req.method = "GET" /\ Len(task[t].req.path) = 2
           /\ task[t].req.path[1] = W_users /\ task[t].req.path[2] # <<>>
           /\ task[t].pc \in {"dispatching", "responding", "done"}
           => LET x == task[t].req.path[2]
              IN  IF x = W_me
                  THEN /\ app[task[t].route].name = "read_user_me"
                       /\ Done(t) =>
                            /\ task[t].called = "read_user_me"
                            /\ task[t].resp =
                                 Response(200, Entry("user_id", PyStr(W_the_current_user)), <<>>)
                  ELSE /\ app[task[t].route].name = "read_user"
                       /\ task[t].args = ("user_id" :> PyStr(x))
                       /\ Done(t) =>
                            /\ task[t].called = "read_user"
                            /\ task[t].resp = Response(200, Entry("user_id", PyStr(x)), <<>>)
        /\ task[t].called = "read_user" => task[t].args["user_id"] # PyStr(W_me)

C3_Witness ==
    \E t \in DOMAIN task :
        /\ Done(t) /\ task[t].req = Bare("GET", <<W_users, W_me>>)
        /\ task[t].called = "read_user_me"

\* C4: whatever requests run and however their steps interleave,
\* fake_items_db keeps its three initial elements, and two requests with
\* the same parameters get the same response
C4_NoSharedMutation ==
    /\ fake_items_db = FakeItemsDb
    /\ \A t1, t2 \in DOMAIN task :
          Done(t1) /\ Done(t2) /\ task[t1].req = task[t2].req
          => task[t1].resp = task[t2].resp

C4_Witness ==
    \E t1, t2 \in DOMAIN task :
        /\ t1 # t2 /\ Done(t1) /\ task[t2].pc = "responding"
        /\ task[t1].called = "items2" /\ task[t2].called = "items2"
        /\ task[t1].req = task[t2].req
        /\ Len(task[t1].resp.body.a) = 1

\* C8: /models/{model_name} accepts exactly alexnet, resnet and lenet, in
\* that spelling, returns each one's message with model_name echoed, and
\* answers any other value with 422 without running get_model
C8_ModelEnum ==
    \A t \in DOMAIN task :
        Done(t) /\ task[t].req.method = "GET" /\ Len(task[t].req.path) = 2
        /\ task[t].req.path[1] = W_models /\ task[t].req.path[2] # <<>>
        => LET x == task[t].req.path[2]
               Reply(msg) == Response(200, PyDict(("model_name" :> PyStr(x))
                                                  @@ ("message" :> PyStr(msg))), <<>>)
           IN  CASE x = W_alexnet -> task[t].resp = Reply(W_Deep_Learning_FTW)
                                      /\ task[t].called = "get_model"
                 [] x = W_lenet   -> task[t].resp = Reply(W_LeCNN_all_the_images)
                                      /\ task[t].called = "get_model"
                 [] x = W_resnet  -> task[t].resp = Reply(W_Have_some_residuals)
                                      /\ task[t].called = "get_model"
                 [] OTHER -> task[t].resp.status = 422 /\ task[t].called = ""

C8_Witness ==
    \E t \in DOMAIN task :
        /\ Done(t) /\ task[t].req = Bare("GET", <<W_models, W_lenet>>)
        /\ task[t].called = "get_model" /\ task[t].resp.status = 200

\* the elements of fake_items_db at indices skip <= i < min(skip + limit, 3)
ExpectedItems(skip, limit) ==
    LET stop == IF skip + limit < 3 THEN skip + limit ELSE 3
    IN  [j \in 1..(IF stop > skip THEN stop - skip ELSE 0) |-> FakeItemsDb[skip + j]]

\* C10: for skip >= 0 and limit >= 0, /items2/ answers 200 with the elements
\* of fake_items_db at indices skip <= i < min(skip + limit, 3) in stored
\* order: never more than limit items, none when skip >= 3 or limit = 0,
\* never an error; skip defaults to 0 and limit to 10
C10_Items2Slice ==
    \A t \in DOMAIN task :
        Done(t) /\ task[t].req.method = "GET" /\ task[t].req.path = <<ItemsN(2), <<>>>>
        => \A skip \in 0..(MaxSkip + 1), limit \in 0..(MaxLimit + 6) :
              /\ task[t].req.query \in
                    { Values(("skip" :> s) @@ ("limit" :> l)) :
                        s \in {<<IntToStr(skip)>>} \cup (IF skip = 0 THEN {<<>>} ELSE {}),
                        l \in {<<IntToStr(limit)>>} \cup (IF limit = 10 THEN {<<>>} ELSE {}) }
                 => /\ task[t].resp = Response(200, PyList(ExpectedItems(skip, limit)), <<>>)
                    /\ Len(task[t].resp.body.a) <= limit
                    /\ (skip >= 3 \/ limit = 0) => task[t].resp.body.a = <<>>
                    /\ (skip = 0 /\ limit = 10) => task[t].resp.body.a = FakeItemsDb

C10_Witness ==
    \E t \in DOMAIN task :
        /\ Done(t)
        /\ task[t].req = GetQ(<<ItemsN(2), <<>>>>,
                              ("skip" :> <<IntToStr(1)>>) @@ ("limit" :> <<IntToStr(1)>>))
        /\ task[t].resp.body = PyList(<<FakeItemsDb[2]>>)

\* whether task t has answered a GET /items19/<id>
Items19Done(t) ==
    /\ Done(t) /\ task[t].req.method = "GET" /\ Len(task[t].req.path) = 2
    /\ task[t].req.path[1] = ItemsN(19) /\ task[t].req.path[2] # <<>>

\* item_id values sent to /items19/, as numbers
SampleIds == {-1, 0, 1, 500, 999, 1000, 1001}

\* size values sent to /items19/: the text and the fraction num/den it denotes
SampleSizes ==
    { <<<<"0">>, 0, 1>>, <<<<"0", ".", "0", "1">>, 1, 100>>, <<<<"5">>, 5, 1>>,
      <<<<"9", ".", "9", "9">>, 999, 100>>, <<<<"1", "0">>, 10, 1>>,
      <<<<"1", "0", ".", "0">>, 10, 1>>, <<<<"1", "0", ".", "5">>, 21, 2>>,
      <<<<"-", "1">>, -1, 1>>, <<<<"-", "0", ".", "5">>, -1, 2>> }

\* the entries of an error list that name parameter n
EntriesFor(detail, n) == {i \in DOMAIN detail : detail[i].loc[Len(detail[i].loc)] = n}

\* C5: for GET /items19/{item_id}, any combination of item_id outside
\* [0, 1000], q missing, and size missing or outside 0 < size < 10 yields
\* one 422 whose error list has exactly one entry per failing parameter
C5_AllErrorsListed ==
    \A t \in DOMAIN task :
        Items19Done(t) =>
            \A n \in SampleIds, sz \in SampleSizes \cup {<<<<>>, 0, 0>>} :
                LET q == task[t].req.query
                    sizeMissing == "size" \notin DOMAIN q
                    failing ==
                        (IF n < 0 \/ n > 1000 THEN {"item_id"} ELSE {})
                        \cup (IF "q" \notin DOMAIN q THEN {"q"} ELSE {})
                        \cup (IF sizeMissing \/ sz[2] <= 0 \/ sz[2] >= 10 * sz[3]
                              THEN {"size"} ELSE {})
                IN  /\ task[t].req.path[2] = IntToStr(n)
                    /\ IF sz[3] = 0 THEN sizeMissing
                       ELSE ~sizeMissing /\ LastOf(task[t].req, "size") = sz[1]
                    /\ failing # {}
                    => /\ task[t].resp.status = 422
                       /\ task[t].called = ""
                       /\ Len(task[t].resp.detail) = Cardinality(failing)
                       /\ \A name \in failing :
                            Cardinality(EntriesFor(task[t].resp.detail, name)) = 1

C5_Witness ==
    \E t \in DOMAIN task :
        /\ Items19Done(t)
        /\ task[t].req = GetQ(<<ItemsN(19), IntToStr(1001)>>, "size" :> <<<<"1", "0">>>>)
        /\ Len(task[t].resp.detail) = 3

\* C9: for GET /items19/{item_id}, item_id < 0 or > 1000 gives 422 and
\* size <= 0 or >= 10 gives 422; item_id 0 and 1000 are accepted, size 0
\* and 10 are rejected; items19 runs only with 0 <= item_id <= 1000 and
\* 0 < size < 10
C9_Items19Bounds ==
    \A t \in DOMAIN task :
        /\ Items19Done(t) =>
            \A n \in SampleIds, sz \in SampleSizes :
                /\ task[t].req.path[2] = IntToStr(n)
                /\ "size" \in DOMAIN task[t].req.query
                /\ LastOf(task[t].req, "size") = sz[1]
                => LET idOk == 0 <= n /\ n <= 1000
                       sizeOk == 0 < sz[2] /\ sz[2] < 10 * sz[3]
                   IN  /\ ~idOk \/ ~sizeOk =>
                            task[t].resp.status = 422 /\ task[t].called = ""
                       /\ ~idOk => EntriesFor(task[t].resp.detail, "item_id") # {}
                       /\ ~sizeOk => EntriesFor(task[t].resp.detail, "size") # {}
                       /\ idOk => EntriesFor(task[t].resp.detail, "item_id") = {}
                       /\ sizeOk => EntriesFor(task[t].resp.detail, "size") = {}
                       /\ idOk /\ sizeOk /\ "q" \in DOMAIN task[t].req.query =>
                            /\ task[t].resp.status = 200
                            /\ task[t].called = "items19"
                            /\ task[t].args["item_id"] = PyInt(n)
        /\ task[t].called = "items19" =>
            LET id == task[t].args["item_id"]
                size == task[t].args["size"]
            IN  /\ id.t = "int" /\ 0 <= id.n /\ id.n <= 1000
                /\ size.t = "float" /\ size.k = "fin" /\ size.den > 0
                /\ 0 < size.num /\ size.num < 10 * size.den

C9_Witness ==
    \E t \in DOMAIN task :
        /\ Items19Done(t) /\ task[t].called = "items19"
        /\ task[t].req.path[2] = IntToStr(1000)
        /\ LastOf(task[t].req, "size") = <<"9", ".", "9", "9">>
        /\ task[t].resp.status = 200

\* whether task t has answered a GET /items4/<id>
Items4Done(t) ==
    /\ Done(t) /\ task[t].req.method = "GET" /\ Len(task[t].req.path) = 2
    /\ task[t].req.path[1] = ItemsN(4) /\ task[t].req.path[2] # <<>>

\* the spellings the source's comments and the specification name
NamedTrue == { <<"y", "e", "s">>, <<"o", "n">>, <<"1">>, <<"t", "r", "u", "e">>,
               <<"T", "r", "u", "e">> }

NamedFalse == { <<"n", "o">>, <<"o", "f", "f">>, <<"0">>, <<"f", "a", "l", "s", "e">>,
                <<"F", "a", "l", "s", "e">> }

\* further spellings that read as true and as false
MoreTrue == { <<"t">>, <<"y">>, <<"T", "R", "U", "E">>, <<"Y", "e", "s">> }

MoreFalse == { <<"f">>, <<"n">>, <<"O", "F", "F">>, <<"N", "o">> }

\* strings that are no boolean in any spelling
NoBoolean == { <<"2">>, <<"-", "1">>, <<>>, <<"m", "a", "y", "b", "e">>, <<"t", "r", "u">>,
               <<"1", "0">>, <<"1", ".", "0">>, <<" ", "1">>, <<"o", "k">>, W_abc }

\* the response of item4 with short true / false
ShortAnswer(t) ==
    /\ task[t].resp.status = 200 /\ task[t].called = "item4"
    /\ task[t].args["short"] = PyBool(TRUE)
    /\ "description" \notin DOMAIN task[t].resp.body.d

LongAnswer(t) ==
    /\ task[t].resp.status = 200 /\ task[t].called = "item4"
    /\ task[t].args["short"] = PyBool(FALSE)
    /\ "description" \in DOMAIN task[t].resp.body.d
    /\ task[t].resp.body.d["description"] = PyStr(W_long_description)

Rejected(t) == task[t].resp.status = 422 /\ task[t].called = ""

\* C7 as stated: for GET /items4/{item_id}, short=yes, on, 1, true, True give
\* true and no "description" key; short=no, off, 0, false, False and short
\* omitted give "description": "long description"; any other string gives 422
C7_AnyOtherStringRejected ==
    \A t \in DOMAIN task :
        Items4Done(t) =>
            IF "short" \notin DOMAIN task[t].req.query THEN LongAnswer(t)
            ELSE IF LastOf(task[t].req, "short") \in NamedTrue THEN ShortAnswer(t)
            ELSE IF LastOf(task[t].req, "short") \in NamedFalse THEN LongAnswer(t)
            ELSE Rejected(t)

\* C7: for GET /items4/{item_id}, a value of short that, lower-cased, is one
\* of 1, on, t, true, y, yes gives true and a response without "description";
\* one that, lower-cased, is one of 0, off, f, false, n, no, and short
\* omitted, give "description": "long description"; any other string gives
\* 422 and item4 does not run
C7_ShortCoercion ==
    \A t \in DOMAIN task :
        Items4Done(t) =>
            IF "short" \notin DOMAIN task[t].req.query THEN LongAnswer(t)
            ELSE LET v == LastOf(task[t].req, "short")
                 IN  /\ v \in NamedTrue \cup MoreTrue => ShortAnswer(t)
                     /\ v \in NamedFalse \cup MoreFalse => LongAnswer(t)
                     /\ v \in NoBoolean => Rejected(t)
                     /\ v \in NamedTrue \cup MoreTrue \cup NamedFalse \cup MoreFalse
                              \cup NoBoolean

C7_Witness ==
    \E t \in DOMAIN task :
        /\ Items4Done(t)
        /\ task[t].req = GetQ(<<ItemsN(4), W_foo>>, "short" :> <<<<"T", "R", "U", "E">>>>)
        /\ ShortAnswer(t)

\* (method, path) pairs whose path is registered, under other methods only
OtherMethodSamples ==
    { <<"POST", <<W_items, W_5>>>>, <<"GET", <<ItemsN(7), <<>>>>>>,
      <<"HEAD", <<W_items, W_5>>>>, <<"PUT", <<W_users, W_me>>>>,
      <<"GET", <<ItemsN(9), W_5>>>>, <<"DELETE", << <<>> >>>>,
      <<"GET", <<W_offers1, <<>>>>>>, <<"POST", <<W_docs>>>> }

\* paths that are registered only with the final slash added or removed
SlashOnlySamples ==
    { <<ItemsN(2)>>, <<ItemsN(7)>>, <<ItemsN(8), <<>>>>, <<W_items, W_5, <<>>>>,
      <<W_users, W_me, <<>>>>, <<W_files>>, <<W_offers1>>, <<W_redoc, <<>>>> }

\* paths that are not registered, with or without a final slash
UnknownSamples ==
    { <<W_nothing>>, <<W_nothing, <<>>>>, <<W_items>>, <<W_items, W_5, W_x>>,
      <<W_users>>, <<W_users, <<>>>>, <<W_images1>> }

\* the routes whose path matches p, and those that also accept the method
PathRoutes(p) == {i \in DOMAIN app : PathMatches(app[i], p)}

MethodRoutes(method, p) == {i \in PathRoutes(p) : method \in app[i].methods}

\* C2 as stated: a request whose method and path match no registered route
\* (a path registered only under another method included) is answered 404
\* and no handler runs
C2_UnmatchedIs404 ==
    \A t \in DOMAIN task :
        Done(t) /\ MethodRoutes(task[t].req.method, task[t].req.path) = {}
        => task[t].resp.status = 404 /\ task[t].called = ""

\* C2: a request whose method and path match no registered route runs no
\* handler; it is answered 405 when the path is registered under another
\* method (POST /items/5, GET /items7/), 307 when the path is registered
\* only with the final slash added or removed (GET /items2), and 404 when
\* the path is registered in neither form
C2_UnmatchedNeverDispatched ==
    \A t \in DOMAIN task :
        LET method == task[t].req.method
            p == task[t].req.path
        IN  Done(t) /\ MethodRoutes(method, p) = {} =>
                /\ task[t].called = "" /\ task[t].route = 0
                /\ task[t].resp.status =
                      IF PathRoutes(p) # {} THEN 405
                      ELSE IF p # << <<>> >> /\ PathRoutes(RedirectPath(p)) # {} THEN 307
                      ELSE 404
                /\ <<method, p>> \in OtherMethodSamples => task[t].resp = MethodNotAllowed
                /\ p \in SlashOnlySamples => task[t].resp.status = 307
                /\ p \in UnknownSamples => task[t].resp = NotFound

C2_Witness ==
    \E t \in DOMAIN task :
        /\ Done(t) /\ task[t].req = Bare("POST", <<W_items, W_5>>)
        /\ task[t].resp.status = 405 /\ task[t].called = ""

\* whether p is the route's one body parameter, declared without embed
SoleBody(route, p) ==
    /\ p.in = "body" /\ ~p.embed
    /\ Cardinality({i \in DOMAIN route.params : route.params[i].in = "body"}) = 1

\* whether the request gives no value for parameter p of the route
OmittedBy(req, route, p) ==
    CASE p.in = "query"  -> p.alias \notin DOMAIN req.query
      [] p.in = "cookie" -> p.alias \notin DOMAIN req.cookies
      [] p.in = "body"   -> \/ req.body = PyNone
                            \/ /\ ~SoleBody(route, p) /\ req.body.t = "dict"
                               /\ p.alias \notin DOMAIN req.body.d
      [] OTHER -> FALSE

Missing(loc) == Err(loc, "value_error.missing")

\* whether the error list has the entry e
Lists(detail, e) == \E j \in DOMAIN detail : detail[j] = e

\* whether task t is past validation on a route
Validated(t) == task[t].route # 0 /\ task[t].pc \in {"dispatching", "responding", "done"}

\* whether task t has answered a GET on a path that starts with word w and
\* has n segments
GetDone(t, w, n) ==
    /\ Done(t) /\ task[t].req.method = "GET" /\ task[t].route # 0
    /\ Len(task[t].req.path) = n /\ task[t].req.path[1] = w

\* C6 as stated: a request that omits a parameter declared required without
\* a default gets a 422 whose error list names that parameter
C6_MissingNamesParameter ==
    \A t \in DOMAIN task :
        Validated(t) =>
            \A i \in DOMAIN app[task[t].route].params :
                LET p == app[task[t].route].params[i]
                IN  p.required /\ OmittedBy(task[t].req, app[task[t].route], p) =>
                        /\ task[t].resp.status = 422
                        /\ \E j \in DOMAIN task[t].resp.detail :
                              LET e == task[t].resp.detail[j]
                              IN  e.type = "value_error.missing" /\ e.loc[Len(e.loc)] = p.alias

\* C6: a request that omits a parameter declared required without a default
\* gets a 422 and the handler does not run; the error list has a "missing"
\* entry that names the parameter, except that a route's single body
\* parameter declared without embed is named `body` (needy of /items5 and
\* /items6, q of /items12, /items18 and /items19 are named).  A parameter
\* with a default is never reported missing, and when the request is valid
\* its default is what the handler receives (skip = 0, limit = None in
\* /items6)
C6_MissingReported ==
    \A t \in DOMAIN task :
        /\ Validated(t) =>
            \A i \in DOMAIN app[task[t].route].params :
                LET route == app[task[t].route]
                    p == route.params[i]
                    loc == IF SoleBody(route, p) THEN <<"body">> ELSE <<p.in, p.alias>>
                IN  OmittedBy(task[t].req, route, p) =>
                        IF p.required
                        THEN /\ Done(t) /\ task[t].resp.status = 422 /\ task[t].called = ""
                             /\ Lists(task[t].resp.detail, Missing(loc))
                        ELSE /\ ~Lists(task[t].resp.detail, Missing(loc))
                             /\ task[t].errors = <<>> =>
                                    /\ p.name \in DOMAIN task[t].args
                                    /\ task[t].args[p.name] = p.default
        /\ (GetDone(t, ItemsN(5), 2) \/ GetDone(t, ItemsN(6), 2))
           /\ "needy" \notin DOMAIN task[t].req.query
           => /\ task[t].resp.status = 422 /\ task[t].called = ""
              /\ Lists(task[t].resp.detail, Missing(<<"query", "needy">>))
        /\ (GetDone(t, ItemsN(12), 2) \/ GetDone(t, ItemsN(18), 2)
                \/ GetDone(t, ItemsN(19), 2))
           /\ "q" \notin DOMAIN task[t].req.query
           => /\ task[t].resp.status = 422 /\ task[t].called = ""
              /\ Lists(task[t].resp.detail, Missing(<<"query", "q">>))
        /\ GetDone(t, ItemsN(6), 2) /\ "needy" \in DOMAIN task[t].req.query
           /\ "skip" \notin DOMAIN task[t].req.query
           /\ "limit" \notin DOMAIN task[t].req.query
           => /\ task[t].resp.status = 200 /\ task[t].called = "items6"
              /\ task[t].args["skip"] = PyInt(0) /\ task[t].args["limit"] = PyNone

C6_Witness ==
    \E t \in DOMAIN task :
        /\ Done(t) /\ task[t].req = WithBody("POST", <<ItemsN(7), <<>>>>, "q" :> <<>>, PyNone)
        /\ task[t].resp = ValidationErrorResponse(<<Missing(<<"body">>)>>)
        /\ task[t].called = ""

\* whether the number num/den satisfies the bounds p declares
WithinBounds(p, num, den) ==
    /\ \A b \in p.gt : num > b * den
    /\ \A b \in p.ge : num >= b * den
    /\ \A b \in p.lt : num < b * den
    /\ \A b \in p.le : num <= b * den

\* whether v is a value of the type p declares, within p's constraints
RECURSIVE Conforms(_, _)
Conforms(p, v) ==
    IF v.t = "None" THEN p.allow_none \/ (~p.required /\ p.default = PyNone)
    ELSE CASE p.type = "str" ->
                /\ v.t = "str"
                /\ \A m \in p.min_length : Len(v.s) >= m
                /\ \A m \in p.max_length : Len(v.s) <= m
                /\ \A r \in p.regex : IsPrefix(W_fixedquery, v.s)
           [] p.type = "int" -> v.t = "int" /\ WithinBounds(p, v.n, 1)
           [] p.type = "float" ->
                /\ v.t = "float"
                /\ CASE v.k = "fin" -> v.den > 0 /\ WithinBounds(p, v.num, v.den)
                     [] v.k = "inf" -> p.lt = {} /\ p.le = {}
                     [] v.k = "-inf" -> p.gt = {} /\ p.ge = {}
                     [] OTHER -> p.gt \cup p.ge \cup p.lt \cup p.le = {}
           [] p.type = "bool" -> v.t = "bool"
           [] p.type = "enum" -> v.t = "enum" /\ v.cls = p.cls /\ v.s \in EnumValues(p.cls)
           [] p.type = "url" -> v.t = "str" /\ IsPrefix(W_http, Lower(v.s))
           [] p.type = "model" ->
                /\ v.t = "model" /\ v.cls = p.cls
                /\ DOMAIN v.d = {ModelFields(p.cls)[i].name : i \in DOMAIN ModelFields(p.cls)}
                /\ \A i \in DOMAIN ModelFields(p.cls) :
                      Conforms(ModelFields(p.cls)[i], v.d[ModelFields(p.cls)[i].name])
           [] p.type = "list" -> v.t = "list"
           [] p.type = "list_str" ->
                /\ v.t = "list"
                /\ \A i \in DOMAIN v.a : v.a[i].t = "str" /\ Conforms(ElemOf(p, "str"), v.a[i])
           [] p.type = "list_model" ->
                /\ v.t = "list"
                /\ \A i \in DOMAIN v.a : Conforms(ElemOf(p, "model"), v.a[i])
           [] p.type = "set_str" -> v.t = "set" /\ \A e \in v.e : e \in Seq(STRING)
           [] p.type = "dict_int_float" ->
                /\ v.t = "intdict"
                /\ \A k \in DOMAIN v.d : k \in Int /\ v.d[k].t = "float"
           [] OTHER -> FALSE

\* requests of /items19 and /items23 with a parameter that is no number or
\* breaks its bound
BadItems19(req) ==
    /\ req.method = "GET" /\ Len(req.path) = 2 /\ req.path[1] = ItemsN(19)
    /\ \/ req.path[2] \in {W_abc, <<"1", ".", "5">>, IntToStr(-1), IntToStr(1001)}
       \/ /\ "size" \in DOMAIN req.query
          /\ LastOf(req, "size") \in {W_abc, <<>>, W_nan, W_inf, <<"0">>, <<"1", "0">>}

BadItems23(req) ==
    /\ req.method = "PUT" /\ Len(req.path) = 2 /\ req.path[1] = ItemsN(23)
    /\ \/ req.path[2] = W_abc
       \/ /\ req.body.t = "dict" /\ "importance" \in DOMAIN req.body.d
          /\ req.body.d["importance"] \in
                {PyInt(0), PyInt(-1), PyStr(W_abc), PyNaN}
       \/ /\ req.body.t = "dict" /\ "item" \in DOMAIN req.body.d
          /\ req.body.d["item"] = PyDict(EmptyMap)

====
